---- MODULE Spec2Model ----
(***************************************************************************)
(* Model of the text-preparation layer of meeting_prep                     *)
(* (agents/meeting_prep/service.py): contact-name repair, industry         *)
(* inference, the solved-challenges (case study) report, the profile-URL   *)
(* lookup and the assembly of the payload.                                 *)
(*                                                                         *)
(* A Python str is a sequence of one-character strings.  Control           *)
(* characters that have no TLA+ escape are written as short names ("BS"    *)
(* for backspace, "BEL" for bell).  Python's None is the value None below. *)
(***************************************************************************)
EXTENDS Integers, Sequences, FiniteSets, TLC

VARIABLES
    text,           \* _repair_contact_name_in_text: argument text
    contact_name,   \* _repair_contact_name_in_text: argument contact_name
    repaired,       \* the value the call returned (None-or-str), if it returned
    rpath,          \* "call" before the call; afterwards the return path taken
    csv_text,       \* _get_relevant_solved_challenges: argument csv_text
    research_text,  \* _get_relevant_solved_challenges: argument research_text
    target_industry,\* its local target_industry, once inferred
    report,         \* the str the call returned, as its lines
    cpc,            \* "call", "parse" (industry inferred), then the return taken
    link_text,      \* _extract_linkedin_for_contact: argument text
    link_name,      \* _extract_linkedin_for_contact: argument contact_name
    anchor_idx,     \* _extract_linkedin_for_contact: anchor_idx once the contact was looked for
    found_url,      \* the value the call returned, if it returned
    lpc,            \* "call" before the call, "located" after step 1; afterwards the return path
    inputs,         \* _build_input_payload: the fields of inputs the payload shows
    qpilot_text,    \* _build_input_payload: qpilot_text
    playbook_text,  \* _build_input_payload: playbook_text
    solved_challenges_processed, \* _build_input_payload: solved_challenges_processed
    payload_parts,  \* _build_input_payload: the list parts
    payload,        \* the str _build_input_payload returned, if it returned
    ppc,            \* "context" before parts is built, then the section that comes next, "done" at the end
    event_id, \* run_meeting_prep_agent: inputs.event_id, then the local event_id
    company_id, \* run_meeting_prep_agent: inputs.company_id, then the local company_id
    qpilot_path, \* inputs.qpilot_path: None, or the filename of the file reference
    research_doc, \* inputs.research_doc: "none", "missing" (no file at its storage_path) or "file"
    runner_calls, \* the inputs Runner.run_sync was called with, in order
    deck_markdown, \* result.final_output, once the run returned
    saved_decks, \* the decks persistence.save_deck wrote, in order
    apc, \* run_meeting_prep_agent: the step that comes next, then "returned" or what raised
    have_key, \* list_themes: whether api_key or the environment gives a key
    api_form, \* what the themes endpoint answers with: "paged", "list" or "other"
    api_pages, \* the number of pages the workspace has themes for
    all_themes, \* list_themes: all_themes
    cursor, \* list_themes: cursor, the number of the page it was given with; 0 for None
    page_requests, \* list_themes: the iterations of the loop begun
    tpc, \* list_themes: "call", "fetch" in the loop, then how it returned
    api_key_set, \* generate_presentation: whether api_key or the environment gives a key
    max_attempts, \* generate_presentation: max_attempts, from GAMMA_MAX_ATTEMPTS
    attempt, \* generate_presentation: the polls begun
    poll_log, \* what each poll of the status URL gave: <<status, exportUrl>>, in order
    generation_id, \* generate_presentation: generation_id, None before the submit
    gen_result, \* the dict generate_presentation returned; its error as the kind of message
    gpc, \* generate_presentation: "call", "poll" in the loop, "returned"
    cfg_key_set, \* _get_cfg: whether SCRAPINGDOG_API_KEY is set
    requests_made, \* what each client.get gave: <<status code, body>>, status code 0 for an exception; in order
    last_err, \* fetch_person_profile: last_err, as the kind of message
    profile_result, \* the LinkedInProfileResponse returned: ok, status_code, error
    fpc  \* fetch_person_profile: "call", "attempt" in the loop, "returned" or "raised"

repairVars == <<text, contact_name, repaired, rpath>>
linkVars == <<link_text, link_name, anchor_idx, found_url, lpc>>
casesVars == <<csv_text, research_text, target_industry, report, cpc>>
payloadVars == <<inputs, qpilot_text, playbook_text, solved_challenges_processed,
                 payload_parts, payload, ppc>>
agentVars == <<event_id, company_id, qpilot_path, research_doc, runner_calls, deck_markdown, saved_decks, apc>>
themeVars == <<have_key, api_form, api_pages, all_themes, cursor, page_requests, tpc>>
genVars == <<api_key_set, max_attempts, attempt, poll_log, generation_id, gen_result, gpc>>
profileVars == <<cfg_key_set, requests_made, last_err, profile_result, fpc>>
vars == <<text, contact_name, repaired, rpath,
          csv_text, research_text, target_industry, report, cpc,
          link_text, link_name, anchor_idx, found_url, lpc,
          inputs, qpilot_text, playbook_text, solved_challenges_processed,
          payload_parts, payload, ppc,
          event_id, company_id, qpilot_path, research_doc, runner_calls, deck_markdown, saved_decks, apc,
          have_key, api_form, api_pages, all_themes, cursor, page_requests, tpc,
          api_key_set, max_attempts, attempt, poll_log, generation_id, gen_result, gpc,
          cfg_key_set, requests_made, last_err, profile_result, fpc>>

(***************************************************************************)
(* Python values and str primitives.                                       *)
(***************************************************************************)
\* None: a one-element sequence whose element is no character.
None == <<"None">>

\* `not v` for v a str or None.
Falsy(v) == v = None \/ v = <<>>

Max(S) == CHOOSE m \in S : \A n \in S : n <= m
Min(S) == CHOOSE m \in S : \A n \in S : m <= n

\* str.lower() on one character (ASCII).
ToLower ==
    ("A" :> "a") @@ ("B" :> "b") @@ ("C" :> "c") @@ ("D" :> "d") @@ ("E" :> "e") @@ ("F" :> "f")
    @@ ("G" :> "g") @@ ("H" :> "h") @@ ("I" :> "i") @@ ("J" :> "j") @@ ("K" :> "k") @@ ("L" :> "l")
    @@ ("M" :> "m") @@ ("N" :> "n") @@ ("O" :> "o") @@ ("P" :> "p") @@ ("Q" :> "q") @@ ("R" :> "r")
    @@ ("S" :> "s") @@ ("T" :> "t") @@ ("U" :> "u") @@ ("V" :> "v") @@ ("W" :> "w") @@ ("X" :> "x")
    @@ ("Y" :> "y") @@ ("Z" :> "z")

UpperLetters == DOMAIN ToLower

LowerChar(c) == IF c \in UpperLetters THEN ToLower[c] ELSE c

\* str.lower()
RECURSIVE Lower(_)
Lower(s) == IF s = <<>> THEN <<>> ELSE <<LowerChar(Head(s))>> \o Lower(Tail(s))

\* str.isspace() / the regex class \s, on the model's alphabet.
IsSpace(c) == c \in {" ", "\n", "\r", "\t"}

\* s occurs in t starting at index i (case-sensitive).
OccursAt(t, i, s) ==
    /\ i >= 1
    /\ i + Len(s) - 1 <= Len(t)
    /\ \A k \in 1..Len(s) : t[i + k - 1] = s[k]

\* `s in t`
Contains(t, s) == \E i \in 1..(Len(t) - Len(s) + 1) : OccursAt(t, i, s)

\* str.replace(old, new): leftmost non-overlapping occurrences, from index pos.
RECURSIVE ReplaceFrom(_, _, _, _)
ReplaceFrom(t, old, new, pos) ==
    LET hits == {i \in pos..Len(t) : OccursAt(t, i, old)}
    IN  IF hits = {} THEN SubSeq(t, pos, Len(t))
        ELSE SubSeq(t, pos, Min(hits) - 1) \o new
                 \o ReplaceFrom(t, old, new, Min(hits) + Len(old))

Replace(t, old, new) == ReplaceFrom(t, old, new, 1)

\* str.split(): the maximal runs of non-whitespace characters, in order.
RECURSIVE SplitFrom(_, _, _)
SplitFrom(s, pos, cur) ==
    IF pos > Len(s) THEN (IF cur = <<>> THEN <<>> ELSE <<cur>>)
    ELSE IF IsSpace(s[pos])
         THEN (IF cur = <<>> THEN <<>> ELSE <<cur>>) \o SplitFrom(s, pos + 1, <<>>)
         ELSE SplitFrom(s, pos + 1, Append(cur, s[pos]))

Split(s) == SplitFrom(s, 1, <<>>)

(***************************************************************************)
(* The regular expressions of _repair_contact_name_in_text.                *)
(***************************************************************************)
\* A literal (re.escape'd) token matched at index i under re.IGNORECASE.
TokenAt(t, i, tok) ==
    /\ i >= 1
    /\ i + Len(tok) - 1 <= Len(t)
    /\ \A k \in 1..Len(tok) : LowerChar(t[i + k - 1]) = LowerChar(tok[k])

\* Length of the whitespace run of t that starts at index j.
RECURSIVE WsRun(_, _)
WsRun(t, j) == IF j <= Len(t) /\ IsSpace(t[j]) THEN 1 + WsRun(t, j + 1) ELSE 0

\* pattern_simple = r"\s+".join(map(re.escape, parts)), anchored at index i,
\* matching parts[k..]: the index just after the match, 0 when there is none.
\* \s+ is greedy and backtracks: the longest run that lets the rest match.
RECURSIVE MatchParts(_, _, _, _)
MatchParts(t, i, parts, k) ==
    IF ~TokenAt(t, i, parts[k]) THEN 0
    ELSE IF k = Len(parts) THEN i + Len(parts[k])
    ELSE LET j    == i + Len(parts[k])
             runs == {n \in 1..WsRun(t, j) : MatchParts(t, j + n, parts, k + 1) # 0}
         IN  IF runs = {} THEN 0 ELSE MatchParts(t, j + Max(runs), parts, k + 1)

SimpleMatchEnd(t, i, parts) == MatchParts(t, i, parts, 1)

\* The escapes of a replacement template (re's parse_template, ESCAPES).
TemplateEscape(c) ==
    CASE c = "a" -> "BEL"
      [] c = "b" -> "BS"
      [] c = "f" -> "FF"
      [] c = "n" -> "\n"
      [] c = "r" -> "\r"
      [] c = "t" -> "\t"
      [] c = "v" -> "VT"
      [] c = "\\" -> "\\"
      [] OTHER -> "none"

AsciiLetters ==
    {"a","b","c","d","e","f","g","h","i","j","k","l","m",
     "n","o","p","q","r","s","t","u","v","w","x","y","z",
     "A","B","C","D","E","F","G","H","I","J","K","L","M",
     "N","O","P","Q","R","S","T","U","V","W","X","Y","Z"}

Digits == {"0","1","2","3","4","5","6","7","8","9"}

\* re.subn(pattern, repl, ...) with repl a str: repl is a template, whose
\* backslash escapes are processed before the search starts.  The pattern has
\* no groups, so a group reference is an error, as is a backslash followed by
\* another ASCII letter or by nothing.  [ok, s]: s is what each match is
\* replaced with.
RECURSIVE ExpandTemplate(_, _)
ExpandTemplate(repl, pos) ==
    IF pos > Len(repl) THEN [ok |-> TRUE, s |-> <<>>]
    ELSE IF repl[pos] # "\\"
         THEN LET r == ExpandTemplate(repl, pos + 1)
              IN  [ok |-> r.ok, s |-> <<repl[pos]>> \o r.s]
    ELSE IF pos = Len(repl) THEN [ok |-> FALSE, s |-> <<>>]
    ELSE LET c == repl[pos + 1]
             r == ExpandTemplate(repl, pos + 2)
         IN  IF TemplateEscape(c) # "none"
             THEN [ok |-> r.ok, s |-> <<TemplateEscape(c)>> \o r.s]
             ELSE IF c \in AsciiLetters \cup Digits
                  THEN [ok |-> FALSE, s |-> <<>>]
                  ELSE [ok |-> r.ok, s |-> <<"\\", c>> \o r.s]

\* Mutant of SubnSimple: only the first match is replaced (count=1).
RECURSIVE SubnSimpleFirstOnly(_, _, _, _)
SubnSimpleFirstOnly(t, parts, repl, pos) ==
    IF pos > Len(t) THEN [out |-> <<>>, count |-> 0]
    ELSE LET e == SimpleMatchEnd(t, pos, parts)
         IN  IF e # 0
             THEN [out |-> repl \o SubSeq(t, e, Len(t)), count |-> 1]
             ELSE LET r == SubnSimpleFirstOnly(t, parts, repl, pos + 1)
                  IN  [out |-> <<t[pos]>> \o r.out, count |-> r.count]

\* re.subn(pattern_simple, <expanded template>, text, flags=re.IGNORECASE):
\* leftmost non-overlapping matches from index pos, [out, count].
RECURSIVE SubnSimple(_, _, _, _)
SubnSimple(t, parts, repl, pos) ==
    LET hits == {i \in pos..Len(t) : SimpleMatchEnd(t, i, parts) # 0}
    IN  IF hits = {} THEN [out |-> SubSeq(t, pos, Len(t)), count |-> 0]
        ELSE LET i == Min(hits)
                 r == SubnSimple(t, parts, repl, SimpleMatchEnd(t, i, parts))
             IN  [out |-> SubSeq(t, pos, i - 1) \o repl \o r.out, count |-> r.count + 1]

\* The widest gap of proximity_pattern, r".{0,200}?".
ProximityGap == 200

\* Mutant of ProximityMatchEnd: the gap is at most 150 characters wide, as
\* the docstring has it.
ProximityMatchEndNarrow(t, i, first, last) ==
    IF ~TokenAt(t, i, first) THEN 0
    ELSE LET e1   == i + Len(first)
             gaps == {g \in 0..150 :
                         e1 + g <= Len(t) + 1 /\ TokenAt(t, e1 + g, last)}
         IN  IF gaps = {} THEN 0 ELSE e1 + Min(gaps) + Len(last)

\* proximity_pattern = first + r".{0,200}?" + last (IGNORECASE | DOTALL)
\* anchored at index i: the index just after the match, 0 when there is none.
\* The gap is lazy: the nearest place where last matches.
ProximityMatchEnd(t, i, first, last) ==
    IF ~TokenAt(t, i, first) THEN 0
    ELSE LET e1   == i + Len(first)
             gaps == {g \in 0..ProximityGap :
                         e1 + g <= Len(t) + 1 /\ TokenAt(t, e1 + g, last)}
         IN  IF gaps = {} THEN 0 ELSE e1 + Min(gaps) + Len(last)

\* proximity_pattern.subn(_inject, text): every match m becomes
\* contact_name + " " + m.group(0).
RECURSIVE SubnProximity(_, _, _, _, _)
SubnProximity(t, first, last, name, pos) ==
    LET hits == {i \in pos..Len(t) : ProximityMatchEnd(t, i, first, last) # 0}
    IN  IF hits = {} THEN SubSeq(t, pos, Len(t))
        ELSE LET i == Min(hits)
                 e == ProximityMatchEnd(t, i, first, last)
             IN  SubSeq(t, pos, i - 1) \o name \o <<" ">> \o SubSeq(t, i, e - 1)
                     \o SubnProximity(t, first, last, name, e)

(***************************************************************************)
(* _repair_contact_name_in_text(text, contact_name)                        *)
(***************************************************************************)
\* Mutant of AlreadyPresent: the fast path is never taken.
AlreadyPresentNever(t, name) == FALSE

\* "if contact_name in text" (the fast path's test).
AlreadyPresent(t, name) == Contains(t, name)

\* text.replace("<br>", " ").replace("<br/>", " ")
StripBreaks(t) ==
    Replace(Replace(t, <<"<","b","r",">">>, <<" ">>), <<"<","b","r","/",">">>, <<" ">>)

\* Mutant of TextForStrategies: the cleaned text is adopted unconditionally.
TextForStrategiesAlwaysClean(t, name) == StripBreaks(t)

\* The text the two strategies work on: text_clean when the name occurs in it,
\* the text as given otherwise.
TextForStrategies(t, name) ==
    IF Contains(StripBreaks(t), name) THEN StripBreaks(t) ELSE t

\* Neither early return is taken: the call reaches re.subn.
ReachesStrategies(t, name) ==
    /\ ~Falsy(t)
    /\ ~Falsy(name)
    /\ ~AlreadyPresent(t, name)
    /\ Len(Split(name)) >= 2

\* Strategy 1: re.subn(pattern_simple, contact_name, text, flags=re.IGNORECASE)
WhitespaceSubn(t, name) ==
    SubnSimple(TextForStrategies(t, name), Split(name), ExpandTemplate(name, 1).s, 1)

\* Strategy 2: proximity_pattern.subn(_inject, text), on Strategy 1's output.
ProximitySubn(t, name) ==
    LET parts == Split(name)
    IN  SubnProximity(WhitespaceSubn(t, name).out, parts[1], parts[Len(parts)], name, 1)

\* The value repaired holds until the call returns.
Unset == <<"unset">>

\* No inputs object: _build_input_payload is not running.
NoInputs == <<"unset">>

\* "if not text or not contact_name: return text"
ReturnEmptyInput ==
    /\ rpath = "call"
    /\ Falsy(text) \/ Falsy(contact_name)
    /\ repaired' = text
    /\ rpath' = "empty"
    /\ UNCHANGED <<text, contact_name>>
    /\ UNCHANGED casesVars
    /\ UNCHANGED linkVars
    /\ UNCHANGED payloadVars
    /\ UNCHANGED agentVars
    /\ UNCHANGED themeVars
    /\ UNCHANGED genVars
    /\ UNCHANGED profileVars

\* "if contact_name in text: return text"
ReturnFastPath ==
    /\ rpath = "call"
    /\ ~Falsy(text) /\ ~Falsy(contact_name)
    /\ AlreadyPresent(text, contact_name)
    /\ repaired' = text
    /\ rpath' = "fast"
    /\ UNCHANGED <<text, contact_name>>
    /\ UNCHANGED casesVars
    /\ UNCHANGED linkVars
    /\ UNCHANGED payloadVars
    /\ UNCHANGED agentVars
    /\ UNCHANGED themeVars
    /\ UNCHANGED genVars
    /\ UNCHANGED profileVars

\* "if len(parts) < 2: return text"
ReturnSingleToken ==
    /\ rpath = "call"
    /\ ~Falsy(text) /\ ~Falsy(contact_name)
    /\ ~AlreadyPresent(text, contact_name)
    /\ Len(Split(contact_name)) < 2
    /\ repaired' = text
    /\ rpath' = "single"
    /\ UNCHANGED <<text, contact_name>>
    /\ UNCHANGED casesVars
    /\ UNCHANGED linkVars
    /\ UNCHANGED payloadVars
    /\ UNCHANGED agentVars
    /\ UNCHANGED themeVars
    /\ UNCHANGED genVars
    /\ UNCHANGED profileVars

\* re.subn raises re.error while compiling contact_name as a template.
RaiseTemplateError ==
    /\ rpath = "call"
    /\ ReachesStrategies(text, contact_name)
    /\ ~ExpandTemplate(contact_name, 1).ok
    /\ rpath' = "raise"
    /\ UNCHANGED <<text, contact_name, repaired>>
    /\ UNCHANGED casesVars
    /\ UNCHANGED linkVars
    /\ UNCHANGED payloadVars
    /\ UNCHANGED agentVars
    /\ UNCHANGED themeVars
    /\ UNCHANGED genVars
    /\ UNCHANGED profileVars

\* Strategy 1 matched: "if count > 0: return text"
ReturnWhitespaceRepair ==
    /\ rpath = "call"
    /\ ReachesStrategies(text, contact_name)
    /\ ExpandTemplate(contact_name, 1).ok
    /\ WhitespaceSubn(text, contact_name).count > 0
    /\ repaired' = WhitespaceSubn(text, contact_name).out
    /\ rpath' = "whitespace"
    /\ UNCHANGED <<text, contact_name>>
    /\ UNCHANGED casesVars
    /\ UNCHANGED linkVars
    /\ UNCHANGED payloadVars
    /\ UNCHANGED agentVars
    /\ UNCHANGED themeVars
    /\ UNCHANGED genVars
    /\ UNCHANGED profileVars

\* Strategy 1 matched nothing: the result of Strategy 2 is returned.
ReturnProximity ==
    /\ rpath = "call"
    /\ ReachesStrategies(text, contact_name)
    /\ ExpandTemplate(contact_name, 1).ok
    /\ WhitespaceSubn(text, contact_name).count = 0
    /\ repaired' = ProximitySubn(text, contact_name)
    /\ rpath' = "proximity"
    /\ UNCHANGED <<text, contact_name>>
    /\ UNCHANGED casesVars
    /\ UNCHANGED linkVars
    /\ UNCHANGED payloadVars
    /\ UNCHANGED agentVars
    /\ UNCHANGED themeVars
    /\ UNCHANGED genVars
    /\ UNCHANGED profileVars

(***************************************************************************)
(* Inputs of the name-repair specification.                                *)
(***************************************************************************)
\* Longest text, in pieces.
MaxPieces == 3

\* The pieces texts are made of: the name verbatim, the name split by a run
\* of whitespace in another case, the name split by break markup, single
\* tokens, whitespace, break markup, another character, an escaped token.
Pieces ==
    { <<"A"," ","B">>,
      <<"a"," ","\n","B">>,
      <<"A","<","b","r",">","B">>,
      <<"A">>,
      <<"B">>,
      <<" ">>,
      <<"<","b","r",">">>,
      <<"<","b","r","/",">">>,
      <<"x">>,
      <<"\\","B">> }

RECURSIVE TextsOf(_)
TextsOf(n) ==
    IF n = 0 THEN {<<>>}
    ELSE TextsOf(n - 1) \cup {t \o p : t \in TextsOf(n - 1), p \in Pieces}

Texts == {None} \cup TextsOf(MaxPieces)

\* The contact names: two tokens, the same token twice, one token, empty,
\* missing, and two names with a backslash in the second token.
Names ==
    { <<"A"," ","B">>,
      <<"A"," ","A">>,
      <<"A">>,
      <<>>,
      None,
      <<"A"," ","\\","b">>,
      <<"A"," ","\\","B">> }

InitRepair ==
    /\ text \in Texts
    /\ contact_name \in Names
    /\ repaired = Unset
    /\ rpath = "call"
    /\ csv_text = <<>>
    /\ research_text = <<>>
    /\ target_industry = Unset
    /\ report = Unset
    /\ cpc = "idle"
    /\ link_text = <<>>
    /\ link_name = <<>>
    /\ anchor_idx = -1
    /\ found_url = Unset
    /\ lpc = "idle"
    /\ inputs = NoInputs
    /\ qpilot_text = <<>>
    /\ playbook_text = <<>>
    /\ solved_challenges_processed = <<>>
    /\ payload_parts = <<>>
    /\ payload = Unset
    /\ ppc = "idle"
    /\ event_id = Unset
    /\ company_id = Unset
    /\ qpilot_path = Unset
    /\ research_doc = "none"
    /\ runner_calls = <<>>
    /\ deck_markdown = Unset
    /\ saved_decks = <<>>
    /\ apc = "idle"
    /\ have_key = FALSE
    /\ api_form = "paged"
    /\ api_pages = 0
    /\ all_themes = <<>>
    /\ cursor = 0
    /\ page_requests = 0
    /\ tpc = "idle"
    /\ api_key_set = FALSE
    /\ max_attempts = 0
    /\ attempt = 0
    /\ poll_log = <<>>
    /\ generation_id = None
    /\ gen_result = [ok |-> FALSE, export_url |-> None, generation_id |-> None, error |-> "unset"]
    /\ gpc = "idle"
    /\ cfg_key_set = FALSE
    /\ requests_made = <<>>
    /\ last_err = "None"
    /\ profile_result = [ok |-> FALSE, status_code |-> 0, error |-> "unset"]
    /\ fpc = "idle"

NextRepair ==
    \/ ReturnEmptyInput
    \/ ReturnFastPath
    \/ ReturnSingleToken
    \/ RaiseTemplateError
    \/ ReturnWhitespaceRepair
    \/ ReturnProximity

SpecRepair == InitRepair /\ [][NextRepair]_vars

(***************************************************************************)
(* Properties of name repair.                                              *)
(***************************************************************************)
Returned == rpath \notin {"call", "raise"}

IsStr(v) == v # None

\* The tokens parts[k..] occur in t from index i on, in order, in any letter
\* case, separated only by runs of one or more whitespace characters: the
\* index just after the last token, 0 when they do not.  (A token holds no
\* whitespace, so the run before it is the whole run.)
RECURSIVE SplitOccurrenceEnd(_, _, _, _)
SplitOccurrenceEnd(t, i, parts, k) ==
    IF i + Len(parts[k]) - 1 > Len(t) THEN 0
    ELSE IF \E n \in 1..Len(parts[k]) :
                LowerChar(t[i + n - 1]) # LowerChar(parts[k][n]) THEN 0
    ELSE IF k = Len(parts) THEN i + Len(parts[k])
    ELSE LET j == i + Len(parts[k])
         IN  IF WsRun(t, j) = 0 THEN 0
             ELSE SplitOccurrenceEnd(t, j + WsRun(t, j), parts, k + 1)

HasSplitOccurrence(t, parts) ==
    \E i \in 1..Len(t) : SplitOccurrenceEnd(t, i, parts, 1) # 0

\* The occurrence [i, e) of t lies inside a verbatim occurrence of s.
InsideVerbatim(t, i, e, s) ==
    \E j \in 1..Len(t) : OccursAt(t, j, s) /\ j <= i /\ e <= j + Len(s)

\* The occurrence [i, e) of t shares a character with a verbatim occurrence of s.
OverlapsVerbatim(t, i, e, s) ==
    \E j \in 1..Len(t) : OccursAt(t, j, s) /\ j < e /\ i < j + Len(s)

\* C1: when the name occurs verbatim in the text, the text is returned
\* unchanged, character for character.
C1_FastPathUnchanged ==
    (rpath # "call" /\ IsStr(text) /\ IsStr(contact_name)
        /\ Contains(text, contact_name))
    => (Returned /\ repaired = text)

\* C1 witness: the fast path returned a text that holds the name verbatim
\* next to another, split, occurrence of it.
C1_Witness ==
    /\ rpath = "fast"
    /\ Len(Split(contact_name)) = 2
    /\ repaired = text
    /\ Len(text) > Len(contact_name)
    /\ HasSplitOccurrence(SubSeq(text, Len(contact_name) + 1, Len(text)),
                          Split(contact_name))

\* C2 (as claimed): for a two-token name whose tokens occur in the text in
\* order, separated only by a run of whitespace, in any letter case, the call
\* returns a text that contains the exact literal name.
C2_SplitNameRepaired ==
    (rpath # "call" /\ IsStr(text) /\ IsStr(contact_name)
        /\ Len(Split(contact_name)) = 2
        /\ HasSplitOccurrence(text, Split(contact_name)))
    => (Returned /\ Contains(repaired, contact_name))

\* C3 (as claimed): for a name of at least two tokens, every occurrence of the
\* name left in the output (tokens separated by whitespace runs, any letter
\* case) is the exact literal name, also when the input already holds the
\* literal.
C3_AllOccurrencesRepaired ==
    (Returned /\ IsStr(text) /\ IsStr(contact_name)
        /\ Len(Split(contact_name)) >= 2)
    => \A i \in 1..Len(repaired) :
          LET e == SplitOccurrenceEnd(repaired, i, Split(contact_name), 1)
          IN  e # 0 => InsideVerbatim(repaired, i, e, contact_name)

\* What the call inserts: the name expanded as a replacement template
\* (Strategy 1) or the name itself (Strategy 2).
Inserted == IF rpath = "whitespace" THEN ExpandTemplate(contact_name, 1).s
            ELSE contact_name

\* C3 (amended): for a name of at least two tokens that does not occur
\* verbatim in the input, every occurrence of the name in the output (tokens
\* separated by whitespace runs, any letter case) is, or overlaps, a
\* replacement the call inserted; no occurrence is left in text carried over
\* from the input.
C3_OccurrencesRepairedUnlessVerbatim ==
    (Returned /\ IsStr(text) /\ IsStr(contact_name)
        /\ Len(Split(contact_name)) >= 2
        /\ ~Contains(text, contact_name))
    => \A i \in 1..Len(repaired) :
          LET e == SplitOccurrenceEnd(repaired, i, Split(contact_name), 1)
          IN  e # 0 => OverlapsVerbatim(repaired, i, e, Inserted)

\* C3 witness: whitespace repair replaced two occurrences.
C3_Witness ==
    /\ rpath = "whitespace"
    /\ WhitespaceSubn(text, contact_name).count >= 2
    /\ Contains(repaired, contact_name)

\* a is a subsequence of b: the characters of a, in order, all occur in b.
RECURSIVE SubseqFrom(_, _, _, _)
SubseqFrom(a, i, b, j) ==
    IF i > Len(a) THEN TRUE
    ELSE IF j > Len(b) THEN FALSE
    ELSE IF a[i] = b[j] THEN SubseqFrom(a, i + 1, b, j + 1)
    ELSE SubseqFrom(a, i, b, j + 1)

IsSubsequence(a, b) == SubseqFrom(a, 1, b, 1)

BreakTags == {<<"<","b","r",">">>, <<"<","b","r","/",">">>}

\* Length of the run of whitespace characters and break tags of t at index j.
RECURSIVE SeparatorRun(_, _)
SeparatorRun(t, j) ==
    IF j > Len(t) THEN 0
    ELSE IF IsSpace(t[j]) THEN 1 + SeparatorRun(t, j + 1)
    ELSE IF \E b \in BreakTags : OccursAt(t, j, b)
         THEN LET b == CHOOSE b \in BreakTags : OccursAt(t, j, b)
              IN  Len(b) + SeparatorRun(t, j + Len(b))
    ELSE 0

\* An occurrence of the name in the input, however fragmented: its tokens, in
\* any case, separated by runs of whitespace and break tags.  The index just
\* after it, 0 when t has none at index i.
RECURSIVE BrokenOccurrenceEnd(_, _, _, _)
BrokenOccurrenceEnd(t, i, parts, k) ==
    IF ~TokenAt(t, i, parts[k]) THEN 0
    ELSE IF k = Len(parts) THEN i + Len(parts[k])
    ELSE LET j == i + Len(parts[k])
         IN  IF SeparatorRun(t, j) = 0 THEN 0
             ELSE BrokenOccurrenceEnd(t, j + SeparatorRun(t, j), parts, k + 1)

\* The characters of t outside the spans matched as occurrences of the name.
RECURSIVE UnrelatedText(_, _, _)
UnrelatedText(t, parts, pos) ==
    IF pos > Len(t) THEN <<>>
    ELSE LET e == BrokenOccurrenceEnd(t, pos, parts, 1)
         IN  IF e # 0 THEN UnrelatedText(t, parts, e)
             ELSE <<t[pos]>> \o UnrelatedText(t, parts, pos + 1)

\* C4 (as claimed): every character of the input outside the occurrences of
\* the name is in the output, unchanged and in order; break tags that are not
\* between the name's tokens are preserved.
C4_UnrelatedTextUntouched ==
    (Returned /\ IsStr(text) /\ IsStr(contact_name)
        /\ Len(Split(contact_name)) >= 2)
    => IsSubsequence(UnrelatedText(text, Split(contact_name), 1), repaired)

\* C4 (amended): the same, except that when replacing every break tag by a
\* space makes the literal name appear, all break tags of the text, also those
\* away from the name, are replaced by a single space each.
C4_UnrelatedTextUntouchedButBreaks ==
    (Returned /\ IsStr(text) /\ IsStr(contact_name)
        /\ Len(Split(contact_name)) >= 2)
    => LET base == IF ~Contains(text, contact_name)
                      /\ Contains(StripBreaks(text), contact_name)
                   THEN StripBreaks(text) ELSE text
       IN  IsSubsequence(UnrelatedText(base, Split(contact_name), 1), repaired)

\* C4 witness: the cleaned text was adopted and the input had a break tag
\* outside the occurrences of the name.
C4_Witness ==
    /\ rpath = "whitespace"
    /\ ~Contains(text, contact_name)
    /\ Contains(StripBreaks(text), contact_name)
    /\ Contains(UnrelatedText(text, Split(contact_name), 1), <<"<">>)

\* C5 (as claimed): the call never raises, and returns the text unchanged
\* when the text or the name is empty or missing.
C5_NeverRaises ==
    /\ rpath # "raise"
    /\ (rpath # "call" /\ (Falsy(text) \/ Falsy(contact_name))) => repaired = text

(***************************************************************************)
(* _get_relevant_solved_challenges(csv_text, research_text)                *)
(*                                                                         *)
(* csv_text is held as the csv module reads it: the sequence of its lines, *)
(* each the sequence of its cells (a blank line has none).  The str that   *)
(* is returned is held as its lines, each an f-string with the values put  *)
(* into it.                                                                *)
(***************************************************************************)
\* 1. The industry keywords mapping, in dict order.
industry_keywords ==
    <<
      [label |-> <<"R","e","t","a","i","l","/","e","C","o","m","m","e","r","c","e">>,
       \* Retail/eCommerce: retail, ecommerce, e-commerce, shopping, store, merchandise, consumer, goods
       keywords |-> <<
           <<"r","e","t","a","i","l">>,
           <<"e","c","o","m","m","e","r","c","e">>,
           <<"e","-","c","o","m","m","e","r","c","e">>,
           <<"s","h","o","p","p","i","n","g">>,
           <<"s","t","o","r","e">>,
           <<"m","e","r","c","h","a","n","d","i","s","e">>,
           <<"c","o","n","s","u","m","e","r">>,
           <<"g","o","o","d","s">> >>],
      [label |-> <<"F","i","n","a","n","c","i","a","l"," ","S","e","r","v","i","c","e","s">>,
       \* Financial Services: bank, finance, financial, fintech, insurance, investment, payment, wealth, capital
       keywords |-> <<
           <<"b","a","n","k">>,
           <<"f","i","n","a","n","c","e">>,
           <<"f","i","n","a","n","c","i","a","l">>,
           <<"f","i","n","t","e","c","h">>,
           <<"i","n","s","u","r","a","n","c","e">>,
           <<"i","n","v","e","s","t","m","e","n","t">>,
           <<"p","a","y","m","e","n","t">>,
           <<"w","e","a","l","t","h">>,
           <<"c","a","p","i","t","a","l">> >>],
      [label |-> <<"M","a","n","u","f","a","c","t","u","r","i","n","g","/","L","o","g","i","s","t","i","c","s">>,
       \* Manufacturing/Logistics: manufacturing, logistics, supply chain, shipping, freight, transport, production, industrial
       keywords |-> <<
           <<"m","a","n","u","f","a","c","t","u","r","i","n","g">>,
           <<"l","o","g","i","s","t","i","c","s">>,
           <<"s","u","p","p","l","y"," ","c","h","a","i","n">>,
           <<"s","h","i","p","p","i","n","g">>,
           <<"f","r","e","i","g","h","t">>,
           <<"t","r","a","n","s","p","o","r","t">>,
           <<"p","r","o","d","u","c","t","i","o","n">>,
           <<"i","n","d","u","s","t","r","i","a","l">> >>],
      [label |-> <<"M","e","d","i","a","/","S","t","r","e","a","m","i","n","g">>,
       \* Media/Streaming: media, streaming, entertainment, broadcasting, content, video, music, gaming
       keywords |-> <<
           <<"m","e","d","i","a">>,
           <<"s","t","r","e","a","m","i","n","g">>,
           <<"e","n","t","e","r","t","a","i","n","m","e","n","t">>,
           <<"b","r","o","a","d","c","a","s","t","i","n","g">>,
           <<"c","o","n","t","e","n","t">>,
           <<"v","i","d","e","o">>,
           <<"m","u","s","i","c">>,
           <<"g","a","m","i","n","g">> >>],
      [label |-> <<"O","n","l","i","n","e"," ","T","r","a","v","e","l">>,
       \* Online Travel: travel, booking, flight, hotel, accommodation, tourism, vacation
       keywords |-> <<
           <<"t","r","a","v","e","l">>,
           <<"b","o","o","k","i","n","g">>,
           <<"f","l","i","g","h","t">>,
           <<"h","o","t","e","l">>,
           <<"a","c","c","o","m","m","o","d","a","t","i","o","n">>,
           <<"t","o","u","r","i","s","m">>,
           <<"v","a","c","a","t","i","o","n">> >>],
      [label |-> <<"S","a","a","S","/","T","e","c","h","n","o","l","o","g","y">>,
       \* SaaS/Technology: saas, technology, software, cloud, platform, tech, digital, app
       keywords |-> <<
           <<"s","a","a","s">>,
           <<"t","e","c","h","n","o","l","o","g","y">>,
           <<"s","o","f","t","w","a","r","e">>,
           <<"c","l","o","u","d">>,
           <<"p","l","a","t","f","o","r","m">>,
           <<"t","e","c","h">>,
           <<"d","i","g","i","t","a","l">>,
           <<"a","p","p">> >>],
      [label |-> <<"S","t","a","r","t","u","p">>,
       \* Startup: startup, scaleup, venture, growth, early stage
       keywords |-> <<
           <<"s","t","a","r","t","u","p">>,
           <<"s","c","a","l","e","u","p">>,
           <<"v","e","n","t","u","r","e">>,
           <<"g","r","o","w","t","h">>,
           <<"e","a","r","l","y"," ","s","t","a","g","e">> >>]
    >>

\* research_text.lower()
TextLower(t) == Lower(t)

\* str.count(kw): the non-overlapping occurrences of kw in t, from index pos.
RECURSIVE CountFrom(_, _, _)
CountFrom(t, kw, pos) ==
    IF pos + Len(kw) - 1 > Len(t) THEN 0
    ELSE IF OccursAt(t, pos, kw) THEN 1 + CountFrom(t, kw, pos + Len(kw))
    ELSE CountFrom(t, kw, pos + 1)

\* "if keyword in text_lower: scores[industry] += text_lower.count(keyword)",
\* summed over keywords[k..].
RECURSIVE ScoreFrom(_, _, _)
ScoreFrom(t, keywords, k) ==
    IF k > Len(keywords) THEN 0
    ELSE (IF Contains(t, keywords[k]) THEN CountFrom(t, keywords[k], 1) ELSE 0)
         + ScoreFrom(t, keywords, k + 1)

\* scores, by position in industry_keywords, from position i on.
RECURSIVE ScoresFrom(_, _)
ScoresFrom(t, i) ==
    IF i > Len(industry_keywords) THEN <<>>
    ELSE <<ScoreFrom(t, industry_keywords[i].keywords, 1)>> \o ScoresFrom(t, i + 1)

Scores(research) == ScoresFrom(TextLower(research), 1)

\* Mutant of BestIndex: of equal scores the last industry wins.
BestIndexLastWins(scores) ==
    Max({i \in DOMAIN scores : \A j \in DOMAIN scores : scores[j] <= scores[i]})

\* max(scores, key=scores.get): the first industry with the greatest score.
BestIndex(scores) ==
    Min({i \in DOMAIN scores : \A j \in DOMAIN scores : scores[j] <= scores[i]})

\* 2. target_industry: None when the best score is 0.
InferredIndustry(research) ==
    LET scores == Scores(research)
        best   == BestIndex(scores)
    IN  IF scores[best] = 0 THEN None ELSE industry_keywords[best].label

\* Mutant of CsvBlank: only the text without any character counts as blank.
CsvBlankOnlyEmpty(csv) == Falsy(csv)

\* "not csv_text or not csv_text.strip()": no character, or whitespace only.
CsvBlank(csv) ==
    \/ Falsy(csv)
    \/ \A n \in 1..Len(csv) :
          \/ csv[n] = <<>>
          \/ Len(csv[n]) = 1 /\ \A k \in 1..Len(csv[n][1]) : IsSpace(csv[n][1][k])

\* The keys the code reads from a row.
KeyIndustry == <<"i","n","d","u","s","t","r","y">>
KeyCustomer == <<"c","u","s","t","o","m","e","r","_","i","n","f","o">>
KeyChallenge == <<"c","h","a","l","l","e","n","g","e">>
KeySolution == <<"s","o","l","u","t","i","o","n">>
KeyProduct == <<"p","r","o","d","u","c","t">>
KeyReference == <<"r","e","f","e","r","e","n","c","e">>

\* The default of the row.get calls that format a row.
NotAvailable == <<"N","/","A">>

\* csv.DictReader: the first line read gives the fieldnames.
Fieldnames(csv) == csv[1]

\* csv.DictReader: the rows it yields, blank lines skipped.
RECURSIVE ReaderRows(_, _)
ReaderRows(csv, n) ==
    IF n > Len(csv) THEN <<>>
    ELSE IF csv[n] = <<>> THEN ReaderRows(csv, n + 1)
    ELSE <<csv[n]>> \o ReaderRows(csv, n + 1)

\* The dict DictReader builds from fieldnames and a row is
\* dict(zip(fieldnames, row)), then restval None for the fieldnames the row is
\* too short for: of a repeated fieldname the last assignment stays.  The
\* column a key is read from (0: the key is no fieldname).
ColumnOf(fieldnames, key) ==
    LET at == {i \in 1..Len(fieldnames) : fieldnames[i] = key}
    IN  IF at = {} THEN 0 ELSE Max(at)

\* The columns of the keys the code reads.
Columns(fieldnames) ==
    [industry  |-> ColumnOf(fieldnames, KeyIndustry),
     customer  |-> ColumnOf(fieldnames, KeyCustomer),
     challenge |-> ColumnOf(fieldnames, KeyChallenge),
     solution  |-> ColumnOf(fieldnames, KeySolution),
     product   |-> ColumnOf(fieldnames, KeyProduct),
     reference |-> ColumnOf(fieldnames, KeyReference)]

\* row.get(key, default), key being read from column col.
RowGet(col, row, default) ==
    IF col = 0 THEN default
    ELSE IF col <= Len(row) THEN row[col]
    ELSE None

\* str.strip()
RECURSIVE StripLeft(_)
StripLeft(v) == IF v # <<>> /\ IsSpace(v[1]) THEN StripLeft(Tail(v)) ELSE v

RECURSIVE StripRight(_)
StripRight(v) ==
    IF v # <<>> /\ IsSpace(v[Len(v)]) THEN StripRight(SubSeq(v, 1, Len(v) - 1)) ELSE v

Strip(v) == StripRight(StripLeft(v))

\* Mutant of RowIndustry: the field is compared as it is.
RowIndustryRaw(raw) == raw

\* row_industry = row.get("industry", "").strip()
RowIndustry(raw) == Strip(raw)

\* Mutant of RowSelected: rows are listed only when they match the target.
RowSelectedOnlyOnMatch(target, industry) == industry = target

\* Mutant of RowSelected: no row is filtered out.
RowSelectedAlways(target, industry) == TRUE

\* not (target_industry and row_industry != target_industry)
RowSelected(target, industry) == Falsy(target) \/ industry = target

\* str(v) as an f-string puts it.
Rendered(v) == IF v = None THEN <<"N","o","n","e">> ELSE v

\* One line of the output: an f-string and the values put into it.
Line(fmt, args) == [fmt |-> fmt, args |-> args]

\* The six lines appended for a row.
CaseStudyLines(cols, row) ==
    << Line("### Case Study: {customer}",
            <<Rendered(RowGet(cols.customer, row, NotAvailable))>>),
       Line("- **Industry**: {row_industry}",
            <<RowIndustry(RowGet(cols.industry, row, <<>>))>>),
       Line("- **Challenge**: {challenge}",
            <<Rendered(RowGet(cols.challenge, row, NotAvailable))>>),
       Line("- **Solution ({product})**: {solution}",
            <<Rendered(RowGet(cols.product, row, NotAvailable)),
              Rendered(RowGet(cols.solution, row, NotAvailable))>>),
       Line("- **Reference**: {reference}",
            <<Rendered(RowGet(cols.reference, row, NotAvailable))>>),
       Line("", <<>>) >>

TruncatedLine == Line("... (List truncated for length)", <<>>)

\* Mutant of MaxEntries: the cap is one entry later.
MaxEntriesOneMore == 30 + 1

\* "if count >= 30": the safety cap.
MaxEntries == 30

\* The csv reader raises csv.Error on a line that has a carriage return in
\* the middle of an unquoted field ("CR" stands for the character).
Unparseable(line) ==
    \E c \in DOMAIN line : \E k \in DOMAIN line[c] : line[c][k] = "CR"

\* str(e) of the exceptions the loop raises.
CsvErrorText ==
    "new-line character seen in unquoted field - do you need to open the file in universal-newline mode?"
AttributeErrorText == "'NoneType' object has no attribute 'strip'"

\* 3. The loop over the reader's rows from rows[n] on, count rows listed so
\* far: [raised, lines, e].  raised: the reader raised csv.Error on the line,
\* or row.get("industry", "") gave None, whose .strip() raises AttributeError.
RECURSIVE OutputLines(_, _, _, _, _)
OutputLines(cols, rows, target, n, count) ==
    IF n > Len(rows) THEN [raised |-> FALSE, lines |-> <<>>, e |-> ""]
    ELSE IF Unparseable(rows[n]) THEN [raised |-> TRUE, lines |-> <<>>, e |-> CsvErrorText]
    ELSE LET raw == RowGet(cols.industry, rows[n], <<>>)
         IN  IF raw = None THEN [raised |-> TRUE, lines |-> <<>>, e |-> AttributeErrorText]
             ELSE IF ~RowSelected(target, RowIndustry(raw))
                  THEN OutputLines(cols, rows, target, n + 1, count)
             ELSE IF count + 1 >= MaxEntries
                  THEN [raised |-> FALSE,
                        lines  |-> CaseStudyLines(cols, rows[n]) \o <<TruncatedLine>>,
                        e      |-> ""]
             ELSE LET r == OutputLines(cols, rows, target, n + 1, count + 1)
                  IN  [raised |-> r.raised,
                       lines  |-> CaseStudyLines(cols, rows[n]) \o r.lines,
                       e      |-> r.e]

\* The reader reads the fieldnames when the loop asks for the first row.
ParsedLines(csv, target) ==
    IF Unparseable(Fieldnames(csv))
    THEN [raised |-> TRUE, lines |-> <<>>, e |-> CsvErrorText]
    ELSE OutputLines(Columns(Fieldnames(csv)), ReaderRows(csv, 2), target, 1, 0)

NoticeLine(target) ==
    Line("No specific case studies found for inferred industry: {target_industry}",
         <<target>>)

\* header + "\n" + "\n".join(output_lines): the header, an empty line, the lines.
HeaderLine(target) ==
    Line("Relevant Solved Challenges (Inferred Industry: {target_industry if target_industry else 'All'})",
         <<IF Falsy(target) THEN <<"A","l","l">> ELSE target>>)

\* "if not csv_text or not csv_text.strip(): return ''"
ReturnEmptyCsv ==
    /\ cpc = "call"
    /\ CsvBlank(csv_text)
    /\ report' = <<>>
    /\ cpc' = "empty"
    /\ UNCHANGED <<csv_text, research_text, target_industry>>
    /\ UNCHANGED repairVars
    /\ UNCHANGED linkVars
    /\ UNCHANGED payloadVars
    /\ UNCHANGED agentVars
    /\ UNCHANGED themeVars
    /\ UNCHANGED genVars
    /\ UNCHANGED profileVars

\* 2. Infer the industry from the research text.
InferIndustry ==
    /\ cpc = "call"
    /\ ~CsvBlank(csv_text)
    /\ target_industry' = InferredIndustry(research_text)
    /\ cpc' = "parse"
    /\ UNCHANGED <<csv_text, research_text, report>>
    /\ UNCHANGED repairVars
    /\ UNCHANGED linkVars
    /\ UNCHANGED payloadVars
    /\ UNCHANGED agentVars
    /\ UNCHANGED themeVars
    /\ UNCHANGED genVars
    /\ UNCHANGED profileVars

\* "if not output_lines: return 'No solved challenges data found.'"
ReturnNoData ==
    /\ cpc = "parse"
    /\ Falsy(target_industry)
    /\ LET parsed == ParsedLines(csv_text, target_industry)
       IN  /\ ~parsed.raised
           /\ parsed.lines = <<>>
    /\ report' = <<Line("No solved challenges data found.", <<>>)>>
    /\ cpc' = "nodata"
    /\ UNCHANGED <<csv_text, research_text, target_industry>>
    /\ UNCHANGED repairVars
    /\ UNCHANGED linkVars
    /\ UNCHANGED payloadVars
    /\ UNCHANGED agentVars
    /\ UNCHANGED themeVars
    /\ UNCHANGED genVars
    /\ UNCHANGED profileVars

\* "return header + '\n' + '\n'.join(output_lines)"
ReturnReport ==
    /\ cpc = "parse"
    /\ LET parsed == ParsedLines(csv_text, target_industry)
           lines  == IF parsed.lines = <<>> /\ ~Falsy(target_industry)
                     THEN <<NoticeLine(target_industry)>> ELSE parsed.lines
       IN  /\ ~parsed.raised
           /\ lines # <<>>
           /\ report' = <<HeaderLine(target_industry), Line("", <<>>)>> \o lines
    /\ cpc' = "report"
    /\ UNCHANGED <<csv_text, research_text, target_industry>>
    /\ UNCHANGED repairVars
    /\ UNCHANGED linkVars
    /\ UNCHANGED payloadVars
    /\ UNCHANGED agentVars
    /\ UNCHANGED themeVars
    /\ UNCHANGED genVars
    /\ UNCHANGED profileVars

\* Mutant of ReturnError: no except clause, the exception leaves the call.
ReturnErrorEscapes ==
    /\ cpc = "parse"
    /\ ParsedLines(csv_text, target_industry).raised
    /\ report' = Unset
    /\ cpc' = "raise"
    /\ UNCHANGED <<csv_text, research_text, target_industry>>
    /\ UNCHANGED repairVars
    /\ UNCHANGED linkVars
    /\ UNCHANGED payloadVars
    /\ UNCHANGED agentVars
    /\ UNCHANGED themeVars
    /\ UNCHANGED genVars
    /\ UNCHANGED profileVars

\* "except Exception as e: return f'Error processing Solved Challenges data: {e}'"
ReturnError ==
    /\ cpc = "parse"
    /\ ParsedLines(csv_text, target_industry).raised
    /\ report' = <<Line("Error processing Solved Challenges data: {e}",
                        <<ParsedLines(csv_text, target_industry).e>>)>>
    /\ cpc' = "error"
    /\ UNCHANGED <<csv_text, research_text, target_industry>>
    /\ UNCHANGED repairVars
    /\ UNCHANGED linkVars
    /\ UNCHANGED payloadVars
    /\ UNCHANGED agentVars
    /\ UNCHANGED themeVars
    /\ UNCHANGED genVars
    /\ UNCHANGED profileVars

(***************************************************************************)
(* Inputs of the case-study specification.                                 *)
(***************************************************************************)
\* The columns of the solved-challenges file, as the code documents them.
Header ==
    << <<"i","n","d","u","s","t","r","y">>,
       <<"c","u","s","t","o","m","e","r","_","i","n","f","o">>,
       <<"p","r","o","b","l","e","m","_","o","v","e","r","v","i","e","w">>,
       <<"c","h","a","l","l","e","n","g","e">>,
       <<"p","r","o","d","u","c","t">>,
       <<"c","a","p","a","b","i","l","i","t","y">>,
       <<"s","o","l","u","t","i","o","n">>,
       <<"r","e","f","e","r","e","n","c","e">> >>

RowAcme ==
    <<<<"R","e","t","a","i","l","/","e","C","o","m","m","e","r","c","e">>, <<"A","c","m","e">>, <<"p">>, <<"c","1">>, <<"P","1">>, <<"k">>, <<"s","1">>, <<"r","1">>>>
RowVoyago ==
    <<<<"O","n","l","i","n","e"," ","T","r","a","v","e","l">>, <<"V","o","y","a","g","o">>, <<"p">>, <<"c","2">>, <<"P","2">>, <<"k">>, <<"s","2">>, <<"r","2">>>>
\* The industry field padded with whitespace.
RowPadded ==
    <<<<" ","R","e","t","a","i","l","/","e","C","o","m","m","e","r","c","e"," ">>, <<"P","a","d">>, <<"p">>, <<"c","3">>, <<"P","3">>, <<"k">>, <<"s","3">>, <<"r","3">>>>
\* The industry field in another letter case.
RowLower ==
    <<<<"r","e","t","a","i","l","/","e","c","o","m","m","e","r","c","e">>, <<"L","o","w">>, <<"p">>, <<"c","4">>, <<"P","4">>, <<"k">>, <<"s","4">>, <<"r","4">>>>
\* A row shorter than the header.
RowShort == <<<<"R","e","t","a","i","l","/","e","C","o","m","m","e","r","c","e">>, <<"S","h","o","r","t">>>>
\* A blank line.
RowBlank == <<>>

\* A file whose industry column is not the first: a row of one cell has none.
HeaderCustomerFirst ==
    << <<"c","u","s","t","o","m","e","r","_","i","n","f","o">>,
       <<"i","n","d","u","s","t","r","y">> >>
RowSolo == <<<<"S","o","l","o">>>>
RowDuo == <<<<"D","u","o">>, <<"R","e","t","a","i","l","/","e","C","o","m","m","e","r","c","e">>>>
\* Lines with a carriage return inside an unquoted field.
RowBareCR == <<<<"D","CR","u">>, <<"R","e","t","a","i","l","/","e","C","o","m","m","e","r","c","e">>>>
HeaderBareCR ==
    << <<"c","u","s","t","o","m","e","r","_","i","n","f","o">>,
       <<"i","n","d","u","s","CR","t","r","y">> >>

RowTemplates == {RowAcme, RowVoyago, RowPadded, RowLower, RowShort, RowBlank}

\* Rows repeated to fill a file up to the cap and beyond.
FillerRows == {RowAcme, RowVoyago}
FillCounts == {0, MaxEntries - 1, MaxEntries}

\* Most varied rows at the head of a file.
MaxHeadRows == 2

RECURSIVE HeadsOf(_)
HeadsOf(n) ==
    IF n = 0 THEN {<<>>}
    ELSE HeadsOf(n - 1) \cup {Append(h, r) : h \in HeadsOf(n - 1), r \in RowTemplates}

Repeated(row, n) == [i \in 1..n |-> row]

\* The files: empty, whitespace only, and a header followed by rows.
CsvTexts ==
    {<<>>, <<<<>>, <<<<" ">>>>>>}
    \cup {<<Header>> \o h \o Repeated(f, n) :
             h \in HeadsOf(MaxHeadRows), f \in FillerRows, n \in FillCounts}
    \cup {<<HeaderCustomerFirst>> \o h \o Repeated(RowDuo, n) :
             h \in {<<RowSolo>>, <<RowDuo>>, <<RowDuo, RowSolo>>, <<RowDuo, RowBareCR>>},
             n \in FillCounts}
    \cup {<<HeaderBareCR>>, <<HeaderBareCR, RowDuo>>}
    \cup {<<HeaderCustomerFirst>> \o Repeated(RowDuo, n) \o <<t>> :
             n \in FillCounts, t \in {RowSolo, RowBareCR}}

\* The research texts: no keyword; one industry; equal scores of two
\* industries; a keyword inside another word; a keyword overlapping itself.
ResearchTexts ==
    { <<>>,
      <<"h","e","l","l","o">>,
      <<"s","h","o","p","p","i","n","g"," ","s","h","o","p","p","i","n","g"," ","s","h","o","p","p","i","n","g">>,
      <<"s","h","o","p","p","i","n","g"," ","T","r","a","v","e","l">>,
      <<"F","i","n","t","e","c","h">>,
      <<"s","a","a","s","a","a","s"," ","T","r","a","v","e","l">>,
      <<"B","a","n","k"," ","b","a","n","k"," ","s","t","o","r","e">> }

\* The research texts every file is read with: no keyword, the industry of
\* some rows, an industry of no row.
FilterTexts ==
    { <<"h","e","l","l","o">>,
      <<"s","h","o","p","p","i","n","g"," ","s","h","o","p","p","i","n","g"," ","s","h","o","p","p","i","n","g">>,
      <<"B","a","n","k"," ","b","a","n","k"," ","s","t","o","r","e">> }

\* The files every research text is read with.
ExampleCsvs == {<<Header>>, <<Header, RowAcme, RowVoyago>>}

InitCases ==
    /\ \/ csv_text \in CsvTexts /\ research_text \in FilterTexts
       \/ csv_text \in ExampleCsvs /\ research_text \in ResearchTexts
    /\ target_industry = Unset
    /\ report = Unset
    /\ cpc = "call"
    /\ text = <<>>
    /\ contact_name = <<>>
    /\ repaired = Unset
    /\ rpath = "idle"
    /\ link_text = <<>>
    /\ link_name = <<>>
    /\ anchor_idx = -1
    /\ found_url = Unset
    /\ lpc = "idle"
    /\ inputs = NoInputs
    /\ qpilot_text = <<>>
    /\ playbook_text = <<>>
    /\ solved_challenges_processed = <<>>
    /\ payload_parts = <<>>
    /\ payload = Unset
    /\ ppc = "idle"
    /\ event_id = Unset
    /\ company_id = Unset
    /\ qpilot_path = Unset
    /\ research_doc = "none"
    /\ runner_calls = <<>>
    /\ deck_markdown = Unset
    /\ saved_decks = <<>>
    /\ apc = "idle"
    /\ have_key = FALSE
    /\ api_form = "paged"
    /\ api_pages = 0
    /\ all_themes = <<>>
    /\ cursor = 0
    /\ page_requests = 0
    /\ tpc = "idle"
    /\ api_key_set = FALSE
    /\ max_attempts = 0
    /\ attempt = 0
    /\ poll_log = <<>>
    /\ generation_id = None
    /\ gen_result = [ok |-> FALSE, export_url |-> None, generation_id |-> None, error |-> "unset"]
    /\ gpc = "idle"
    /\ cfg_key_set = FALSE
    /\ requests_made = <<>>
    /\ last_err = "None"
    /\ profile_result = [ok |-> FALSE, status_code |-> 0, error |-> "unset"]
    /\ fpc = "idle"

NextCases ==
    \/ ReturnEmptyCsv
    \/ InferIndustry
    \/ ReturnNoData
    \/ ReturnReport
    \/ ReturnError

SpecCases == InitCases /\ [][NextCases]_vars

(***************************************************************************)
(* Properties of _get_relevant_solved_challenges                           *)
(***************************************************************************)
\* The positions at which kw occurs in t.
OccurrencesOf(t, kw) == {p \in 1..(Len(t) - Len(kw) + 1) : OccursAt(t, p, kw)}

\* The greatest number of occurrences of kw in t no two of which overlap.
NonOverlappingCount(t, kw) ==
    LET occ  == OccurrencesOf(t, kw)
        free == {S \in SUBSET occ :
                    \A p \in S : \A q \in S : p < q => p + Len(kw) <= q}
    IN  Max({Cardinality(S) : S \in free})

RECURSIVE KeywordTotal(_, _, _)
KeywordTotal(t, keywords, k) ==
    IF k > Len(keywords) THEN 0
    ELSE NonOverlappingCount(t, keywords[k]) + KeywordTotal(t, keywords, k + 1)

\* The total of each taxonomy label, in taxonomy order.
RECURSIVE LabelTotals(_, _)
LabelTotals(t, i) ==
    IF i > Len(industry_keywords) THEN <<>>
    ELSE <<KeywordTotal(t, industry_keywords[i].keywords, 1)>> \o LabelTotals(t, i + 1)

\* The labels of the greatest total.
TopLabels(totals) == {i \in DOMAIN totals : \A j \in DOMAIN totals : totals[j] <= totals[i]}

\* C6: the industry inferred is the taxonomy label whose keywords have the
\* greatest total of non-overlapping occurrences in the lower-cased research
\* text, the first in taxonomy order of the labels that share the greatest
\* total, and no label at all (None) when every total is zero.
C6_GreatestTotalFirstInOrder ==
    cpc = "parse" =>
        LET totals == LabelTotals(Lower(research_text), 1)
            top    == TopLabels(totals)
        IN  IF \A i \in DOMAIN totals : totals[i] = 0
            THEN target_industry = None
            ELSE \E i \in top : /\ \A j \in top : i <= j
                                /\ target_industry = industry_keywords[i].label

\* C6 witness: two labels share the greatest total, which is not zero, and
\* the first of them in taxonomy order has been inferred.
C6_Witness ==
    /\ cpc = "parse"
    /\ LET totals == LabelTotals(Lower(research_text), 1)
           top    == TopLabels(totals)
       IN  \E i \in top : \E j \in top :
              /\ i < j
              /\ totals[i] > 0
              /\ target_industry = industry_keywords[i].label

\* The filter has gone past the empty check and returned.
FilterReturned == cpc \in {"nodata", "report", "error"}

\* The rows of the dataset and the fields the properties speak of.
DataRows == ReaderRows(csv_text, 2)

IndustryOf(row) == RowGet(Columns(Fieldnames(csv_text)).industry, row, <<>>)

CustomerOf(row) == Rendered(RowGet(Columns(Fieldnames(csv_text)).customer, row, NotAvailable))

\* Every line of the dataset parses and every row has an industry field.
EveryRowHasIndustry ==
    /\ \A n \in DOMAIN csv_text : ~Unparseable(csv_text[n])
    /\ \A n \in DOMAIN DataRows : IndustryOf(DataRows[n]) # None

\* The customers of the entries among lines[lo..hi], in the order of the lines.
RECURSIVE EntriesIn(_, _, _)
EntriesIn(lines, lo, hi) ==
    IF lo > hi THEN <<>>
    ELSE IF lo = hi
         THEN (IF lines[lo].fmt = "### Case Study: {customer}"
               THEN <<lines[lo].args[1]>> ELSE <<>>)
    ELSE LET mid == (lo + hi) \div 2
         IN  EntriesIn(lines, lo, mid) \o EntriesIn(lines, mid + 1, hi)

\* The customers of the entries of the report, in the order of the report.
Entries == EntriesIn(report, 1, Len(report))

FirstN(seq, k) == SubSeq(seq, 1, Min({Len(seq), k}))

\* The customers of all rows from rows[n] on, in source order.
RECURSIVE AllCustomers(_, _)
AllCustomers(rows, n) ==
    IF n > Len(rows) THEN <<>>
    ELSE <<CustomerOf(rows[n])>> \o AllCustomers(rows, n + 1)

\* The customers of the rows from rows[n] on whose industry field is equal
\* to label: as it is (stripped FALSE) or stripped of surrounding whitespace.
RECURSIVE CustomersOfIndustry(_, _, _, _)
CustomersOfIndustry(rows, n, label, stripped) ==
    IF n > Len(rows) THEN <<>>
    ELSE LET field == IF stripped THEN Strip(IndustryOf(rows[n])) ELSE IndustryOf(rows[n])
         IN  (IF field = label THEN <<CustomerOf(rows[n])>> ELSE <<>>)
             \o CustomersOfIndustry(rows, n + 1, label, stripped)

\* No taxonomy keyword occurs in the research text.
NoKeywordOccurs ==
    \A i \in DOMAIN industry_keywords :
        \A k \in DOMAIN industry_keywords[i].keywords :
            ~Contains(Lower(research_text), industry_keywords[i].keywords[k])

\* C7: when no taxonomy keyword occurs in the research text, the report of a
\* dataset whose rows all have an industry field lists every row in source
\* order: all of them when there are at most 30, the first 30 otherwise.
C7_AllRowsWhenNoKeyword ==
    (FilterReturned /\ NoKeywordOccurs /\ EveryRowHasIndustry) =>
        /\ cpc # "error"
        /\ Entries = FirstN(AllCustomers(DataRows, 1), MaxEntries)

\* C7 witness: no keyword occurs, the dataset has more than 30 rows, and the
\* report lists 30 of them.
C7_Witness ==
    /\ cpc = "report"
    /\ NoKeywordOccurs
    /\ EveryRowHasIndustry
    /\ Len(DataRows) > MaxEntries
    /\ Len(Entries) = MaxEntries
    /\ Entries[1] # Entries[MaxEntries]

\* The notice that no case study was found for the inferred industry.
HasNotice ==
    \E n \in DOMAIN report :
        /\ report[n].fmt = "No specific case studies found for inferred industry: {target_industry}"
        /\ report[n].args = <<target_industry>>

EligibleCustomers ==
    IF Falsy(target_industry) THEN AllCustomers(DataRows, 1)
    ELSE CustomersOfIndustry(DataRows, 1, target_industry, TRUE)

HasTruncatedMarker ==
    \E n \in DOMAIN report : report[n].fmt = "... (List truncated for length)"

\* C10: the truncation marker is in the report exactly when rows were cut
\* off by the cap of 30 entries: more than 30 eligible rows give 30 entries
\* and the marker, 30 or fewer give all of them and no marker.
C10_MarkerExactlyWhenCut ==
    (FilterReturned /\ EveryRowHasIndustry) =>
        /\ Len(Entries) = Min({Len(EligibleCustomers), MaxEntries})
        /\ HasTruncatedMarker <=> Len(EligibleCustomers) > MaxEntries

\* The rows the filter lets through, from rows[n] on, in source order.
RECURSIVE EligibleRows(_, _)
EligibleRows(rows, n) ==
    IF n > Len(rows) THEN <<>>
    ELSE (IF Falsy(target_industry) \/ Strip(IndustryOf(rows[n])) = target_industry
          THEN <<rows[n]>> ELSE <<>>)
         \o EligibleRows(rows, n + 1)

\* The rows the report lists.
ListedRows == FirstN(EligibleRows(DataRows, 1), MaxEntries)

\* A field of a row as the record is to show it: the placeholder when the
\* column is absent or the row is too short to have it.
FieldOrPlaceholder(key, row) ==
    LET col == ColumnOf(Fieldnames(csv_text), key)
    IN  IF col = 0 \/ col > Len(row) THEN NotAvailable ELSE row[col]

\* The record of a row: heading, industry, challenge, solution with product,
\* reference, and the empty line that ends it.
RecordOf(row) ==
    << [fmt |-> "### Case Study: {customer}",
        args |-> <<FieldOrPlaceholder(KeyCustomer, row)>>],
       [fmt |-> "- **Industry**: {row_industry}",
        args |-> <<Strip(FieldOrPlaceholder(KeyIndustry, row))>>],
       [fmt |-> "- **Challenge**: {challenge}",
        args |-> <<FieldOrPlaceholder(KeyChallenge, row)>>],
       [fmt |-> "- **Solution ({product})**: {solution}",
        args |-> <<FieldOrPlaceholder(KeyProduct, row), FieldOrPlaceholder(KeySolution, row)>>],
       [fmt |-> "- **Reference**: {reference}",
        args |-> <<FieldOrPlaceholder(KeyReference, row)>>],
       [fmt |-> "", args |-> <<>>] >>

\* C11: every row the report lists is rendered as the same record of six
\* lines (heading, industry, challenge, solution with product, reference,
\* spacer), after the two lines of the header, and a field the row does not
\* have (column absent, or row shorter than the header) shows as 'N/A'.
C11_FixedShapeWithPlaceholder ==
    cpc = "report" =>
        \A k \in DOMAIN ListedRows :
            /\ Len(report) >= 2 + 6 * k
            /\ SubSeq(report, 2 + 6 * (k - 1) + 1, 2 + 6 * k) = RecordOf(ListedRows[k])

\* A row the reader cannot parse or that has no industry field.
Malformed(row) == Unparseable(row) \/ IndustryOf(row) = None

\* The loop comes to a malformed line: the header, or a row that fewer than 30
\* listed rows precede.
ReadsMalformedLine ==
    \/ Unparseable(Fieldnames(csv_text))
    \/ \E m \in DOMAIN DataRows :
          /\ Malformed(DataRows[m])
          /\ \A n \in 1..(m - 1) : ~Malformed(DataRows[n])
          /\ Len(EligibleRows(SubSeq(DataRows, 1, m - 1), 1)) < MaxEntries

\* The result is a string: its lines, each a format with its values.
IsReport(r) == \A n \in DOMAIN r : DOMAIN r[n] = {"fmt", "args"}

\* C12: whatever the dataset and the research text, the call ends by
\* returning a string, no exception leaves it, and the string is the
\* processing-error string exactly when the loop came to a line the reader
\* cannot parse or a row without industry field.
C12_ReturnsStringNeverRaises ==
    /\ cpc # "raise"
    /\ cpc \in {"empty", "nodata", "report", "error"} => IsReport(report)
    /\ FilterReturned =>
          (ReadsMalformedLine <=>
              /\ cpc = "error"
              /\ Len(report) = 1
              /\ report[1].fmt = "Error processing Solved Challenges data: {e}")

\* C12 witness: rows were listed before the reader raised csv.Error on a
\* line, and the result is the processing-error string with its message.
C12_Witness ==
    /\ cpc = "error"
    /\ Len(DataRows) > 1
    /\ ~Malformed(DataRows[1])
    /\ \E m \in DOMAIN DataRows : Unparseable(DataRows[m])
    /\ report = <<[fmt |-> "Error processing Solved Challenges data: {e}",
                   args |-> <<CsvErrorText>>]>>

\* The dataset text has no character other than whitespace: no line of it
\* has a comma or a character that is not whitespace.
OnlyWhitespace(csv) ==
    \A n \in DOMAIN csv :
        /\ Len(csv[n]) <= 1
        /\ \A c \in DOMAIN csv[n] : \A k \in DOMAIN csv[n][c] : IsSpace(csv[n][c][k])

\* C13: when the dataset text is empty or has only whitespace, the call
\* returns, whatever the research text, a result without entry and without
\* error: the empty string.
C13_BlankDatasetGivesEmptyResult ==
    (cpc \notin {"idle", "call"} /\ OnlyWhitespace(csv_text)) =>
        /\ cpc = "empty"
        /\ report = <<>>

\* C13 witness: the dataset text has characters, all whitespace, the research
\* text has a keyword, and the call returned the empty string.
C13_Witness ==
    /\ cpc = "empty"
    /\ csv_text # <<>>
    /\ OnlyWhitespace(csv_text)
    /\ ~NoKeywordOccurs
    /\ report = <<>>

(***************************************************************************)
(* _extract_linkedin_for_contact(text, contact_name)                       *)
(*                                                                         *)
(* Line and token indices are those of Python, from 0: line i of the code  *)
(* is lines[i + 1] here.                                                   *)
(***************************************************************************)
\* text.splitlines() from break k on, breaks being the indices of the line
\* breaks of t ("\n", the only line break of the texts read here) and from the
\* index the line starts at.  A line break at the end of t ends the last line.
RECURSIVE LinesFrom(_, _, _)
LinesFrom(t, breaks, from) ==
    IF from > Len(t) THEN <<>>
    ELSE LET later == {b \in breaks : b >= from}
         IN  IF later = {} THEN <<SubSeq(t, from, Len(t))>>
             ELSE <<SubSeq(t, from, Min(later) - 1)>> \o LinesFrom(t, breaks, Min(later) + 1)

SplitLines(t) == LinesFrom(t, {i \in DOMAIN t : t[i] = "\n"}, 1)

\* contact_name.lower().split()
ContactParts(name) == Split(Lower(name))

\* sum(1 for part in contact_parts if part in lowered)
MatchCount(parts, lowered) ==
    Cardinality({p \in DOMAIN parts : Contains(lowered, parts[p])})

\* The match_count of each line from line n on.
RECURSIVE LineCountsFrom(_, _, _)
LineCountsFrom(lines, parts, n) ==
    IF n > Len(lines) THEN <<>>
    ELSE <<MatchCount(parts, Lower(lines[n]))>> \o LineCountsFrom(lines, parts, n + 1)

\* best_match_count after the loop over the lines.
BestMatchCount(counts) == Max({0} \cup {counts[n] : n \in DOMAIN counts})

\* Mutant of SingleLineAnchor: the last of the lines of the best count.
SingleLineAnchorLast(counts) ==
    IF BestMatchCount(counts) = 0 THEN -1
    ELSE Max({n \in DOMAIN counts : counts[n] = BestMatchCount(counts)}) - 1

\* anchor_idx after the loop over the lines: the first line of the best
\* count, -1 when no line has a part of the name.
SingleLineAnchor(counts) ==
    IF BestMatchCount(counts) = 0 THEN -1
    ELSE Min({n \in DOMAIN counts : counts[n] = BestMatchCount(counts)}) - 1

\* The pairs of lines i, i + 1 whose window has every part of the name.
SplitNamePairs(lines, parts) ==
    {i \in 0..(Len(lines) - 2) :
        MatchCount(parts, Lower(lines[i + 1] \o <<" ">> \o lines[i + 2])) >= Len(parts)}

\* Mutant of AnchorOf: no fallback scan for a name split across lines.
AnchorOfSingleLineOnly(lines, parts) ==
    SingleLineAnchor(LineCountsFrom(lines, parts, 1))

\* 1. anchor_idx: the single-line anchor, replaced by the first pair of lines
\* with the whole name when no single line has all parts.
AnchorOf(lines, parts) ==
    LET counts == LineCountsFrom(lines, parts, 1)
        single == SingleLineAnchor(counts)
    IN  IF single = -1 \/ BestMatchCount(counts) < Len(parts)
        THEN (IF SplitNamePairs(lines, parts) # {}
              THEN Min(SplitNamePairs(lines, parts)) ELSE single)
        ELSE single

\* The numbers of the window: lines before and after the anchor.
LinesBefore == 2
LinesAfter == 8

\* 2. window_lines = lines[max(0, anchor_idx - 2) : min(len(lines), anchor_idx + 8)]
WindowStart(anchor) == Max({0, anchor - LinesBefore})
WindowEnd(lines, anchor) == Min({Len(lines), anchor + LinesAfter})
WindowLines(lines, anchor) ==
    SubSeq(lines, WindowStart(anchor) + 1, WindowEnd(lines, anchor))

\* str.startswith, str.endswith
StartsWith(t, s) == OccursAt(t, 1, s)
EndsWith(t, s) == OccursAt(t, Len(t) - Len(s) + 1, s)

\* Mutant of IsStartToken: the end of the token is not looked at.
IsStartTokenAnyEnd(t) == Contains(t, <<"h","t","t","p">>) \/ Contains(t, <<"w","w","w">>)

\* "(t.endswith('lin') or t.endswith('linkedin')) and ('http' in t or 'www' in t)"
IsStartToken(t) ==
    /\ EndsWith(t, <<"l","i","n">>) \/ EndsWith(t, <<"l","i","n","k","e","d","i","n">>)
    /\ Contains(t, <<"h","t","t","p">>) \/ Contains(t, <<"w","w","w">>)

\* "t.startswith('kedin') or t.startswith('.com')"
IsContinuationToken(t) == StartsWith(t, <<"k","e","d","i","n">>) \/ StartsWith(t, <<".","c","o","m">>)

\* "for ti, t in enumerate(tokens): if <start token>: idx = ti; break": the index
\* of the first start token, 0 when there is none.
FirstStartToken(tokens) ==
    LET hits == {k \in DOMAIN tokens : IsStartToken(tokens[k])}
    IN  IF hits = {} THEN 0 ELSE Min(hits)

\* "for ti2, t in enumerate(next_tokens): if <continuation token>: idx2 = ti2; break"
FirstContinuationToken(tokens) ==
    LET hits == {k \in DOMAIN tokens : IsContinuationToken(tokens[k])}
    IN  IF hits = {} THEN 0 ELSE Min(hits)

\* str.rstrip(chars), str.strip(chars)
RECURSIVE RStripChars(_, _)
RStripChars(t, chars) ==
    IF t # <<>> /\ t[Len(t)] \in chars THEN RStripChars(SubSeq(t, 1, Len(t) - 1), chars) ELSE t

RECURSIVE LStripChars(_, _)
LStripChars(t, chars) ==
    IF t # <<>> /\ t[1] \in chars THEN LStripChars(Tail(t), chars) ELSE t

StripChars(t, chars) == RStripChars(LStripChars(t, chars), chars)

\* clean_t = t.rstrip(',.;!:')
CleanToken(t) == RStripChars(t, {",", ".", ";", "!", ":"})

LowerLetters == {LowerChar(c) : c \in AsciiLetters}

StopWords ==
    {<<"a","n","d">>, <<"t","h","e">>, <<"o","f">>, <<"i","n">>, <<"f","o","r">>, <<"w","i","t","h">>, <<"a">>, <<"a","n">>, <<"a","t">>, <<"a","s">>, <<"t","o">>}

\* Mutant of IsSlugToken: a name part of any length counts.
IsSlugTokenAnyPart(t, parts) ==
    LET clean_t == CleanToken(t)
    IN  /\ clean_t # <<>>
        /\ t[1] \notin UpperLetters
        /\ \A k \in DOMAIN clean_t : clean_t[k] \in LowerLetters \cup Digits \cup {"-"}
        /\ Lower(clean_t) \notin StopWords
        /\ \/ \E p \in DOMAIN parts : Contains(Lower(clean_t), parts[p])
           \/ \E k \in DOMAIN clean_t : clean_t[k] \in Digits
           \/ clean_t = <<"-">>

\* The negative and positive filters of a token of a slug line.
IsSlugToken(t, parts) ==
    LET clean_t == CleanToken(t)
    IN  /\ clean_t # <<>>
        /\ t[1] \notin UpperLetters
        /\ \A k \in DOMAIN clean_t : clean_t[k] \in LowerLetters \cup Digits \cup {"-"}
        /\ Lower(clean_t) \notin StopWords
        /\ \/ \E p \in DOMAIN parts : Len(parts[p]) > 2 /\ Contains(Lower(clean_t), parts[p])
           \/ \E k \in DOMAIN clean_t : clean_t[k] \in Digits
           \/ clean_t = <<"-">>

\* candidate: the cleaned first slug token of a line, <<>> when it has none.
SlugCandidate(line, parts) ==
    LET tokens == Split(line)
        hits   == {k \in DOMAIN tokens : IsSlugToken(tokens[k], parts)}
    IN  IF hits = {} THEN <<>> ELSE CleanToken(tokens[Min(hits)])

\* Mutant of SlugFrom: at most one slug part is appended.
SlugFromOneLine(window, offset, parts) ==
    IF offset >= Len(window) THEN <<>> ELSE SlugCandidate(window[offset + 1], parts)

\* The slug parts appended from window line offset on (offset from 0): one
\* per line, until a line has none.
RECURSIVE SlugFrom(_, _, _)
SlugFrom(window, offset, parts) ==
    IF offset >= Len(window) THEN <<>>
    ELSE LET candidate == SlugCandidate(window[offset + 1], parts)
         IN  IF candidate = <<>> THEN <<>>
             ELSE candidate \o SlugFrom(window, offset + 1, parts)

\* full_url.strip('-,.;:')
TrimUrl(url) == StripChars(url, {"-", ",", ".", ";", ":"})

\* Mutant of IsValidUrl: every stitched candidate is accepted.
IsValidUrlAlways(url) == TRUE

\* "linkedin.com/in/" in full_url
IsValidUrl(url) == Contains(url, <<"l","i","n","k","e","d","i","n",".","c","o","m","/","i","n","/">>)

\* The URL stitched from window line i (from 0), <<>> when the line has no
\* start token, the next line no continuation token, or the URL is not valid.
StitchedAt(window, i, parts) ==
    LET tokens == Split(window[i + 1])
        idx    == FirstStartToken(tokens)
    IN  IF idx = 0 \/ i + 1 >= Len(window) THEN <<>>
        ELSE LET next_tokens == Split(window[i + 2])
                 idx2        == FirstContinuationToken(next_tokens)
             IN  IF idx2 = 0 THEN <<>>
                 ELSE LET full_url == TrimUrl(tokens[idx] \o next_tokens[idx2]
                                              \o SlugFrom(window, i + 2, parts))
                      IN  IF IsValidUrl(full_url) THEN full_url ELSE <<>>

\* 3. found_urls[0], <<>> when found_urls is empty.
BestUrl(window, parts) ==
    LET valid == {i \in 0..(Len(window) - 1) : StitchedAt(window, i, parts) # <<>>}
    IN  IF valid = {} THEN <<>> ELSE StitchedAt(window, Min(valid), parts)

\* "if not text or not contact_name: return ''"
ReturnNoInput ==
    /\ lpc = "call"
    /\ Falsy(link_text) \/ Falsy(link_name)
    /\ found_url' = <<>>
    /\ lpc' = "noinput"
    /\ UNCHANGED <<link_text, link_name, anchor_idx>>
    /\ UNCHANGED repairVars
    /\ UNCHANGED casesVars
    /\ UNCHANGED payloadVars
    /\ UNCHANGED agentVars
    /\ UNCHANGED themeVars
    /\ UNCHANGED genVars
    /\ UNCHANGED profileVars

\* 1. Find the anchor line.
LocateContact ==
    /\ lpc = "call"
    /\ ~(Falsy(link_text) \/ Falsy(link_name))
    /\ anchor_idx' = AnchorOf(SplitLines(link_text), ContactParts(link_name))
    /\ lpc' = "located"
    /\ UNCHANGED <<link_text, link_name, found_url>>
    /\ UNCHANGED repairVars
    /\ UNCHANGED casesVars
    /\ UNCHANGED payloadVars
    /\ UNCHANGED agentVars
    /\ UNCHANGED themeVars
    /\ UNCHANGED genVars
    /\ UNCHANGED profileVars

\* "if anchor_idx == -1: return ''"
ReturnNotLocated ==
    /\ lpc = "located"
    /\ anchor_idx = -1
    /\ found_url' = <<>>
    /\ lpc' = "notlocated"
    /\ UNCHANGED <<link_text, link_name, anchor_idx>>
    /\ UNCHANGED repairVars
    /\ UNCHANGED casesVars
    /\ UNCHANGED payloadVars
    /\ UNCHANGED agentVars
    /\ UNCHANGED themeVars
    /\ UNCHANGED genVars
    /\ UNCHANGED profileVars

\* "if found_urls: return best_url"
ReturnBestUrl ==
    /\ lpc = "located"
    /\ anchor_idx # -1
    /\ LET url == BestUrl(WindowLines(SplitLines(link_text), anchor_idx),
                          ContactParts(link_name))
       IN  /\ url # <<>>
           /\ found_url' = url
    /\ lpc' = "url"
    /\ UNCHANGED <<link_text, link_name, anchor_idx>>
    /\ UNCHANGED repairVars
    /\ UNCHANGED casesVars
    /\ UNCHANGED payloadVars
    /\ UNCHANGED agentVars
    /\ UNCHANGED themeVars
    /\ UNCHANGED genVars
    /\ UNCHANGED profileVars

\* The last line: "return ''"
ReturnNoUrl ==
    /\ lpc = "located"
    /\ anchor_idx # -1
    /\ BestUrl(WindowLines(SplitLines(link_text), anchor_idx),
               ContactParts(link_name)) = <<>>
    /\ found_url' = <<>>
    /\ lpc' = "nourl"
    /\ UNCHANGED <<link_text, link_name, anchor_idx>>
    /\ UNCHANGED repairVars
    /\ UNCHANGED casesVars
    /\ UNCHANGED payloadVars
    /\ UNCHANGED agentVars
    /\ UNCHANGED themeVars
    /\ UNCHANGED genVars
    /\ UNCHANGED profileVars

(***************************************************************************)
(* Inputs of the extraction specification: texts given as their lines.     *)
(***************************************************************************)
\* "\n".join(ls)
RECURSIVE JoinLines(_)
JoinLines(ls) ==
    IF ls = <<>> THEN <<>>
    ELSE IF Len(ls) = 1 THEN ls[1]
    ELSE ls[1] \o <<"\n">> \o JoinLines(Tail(ls))

\* The lines before the name: none, fillers, a line with one part of the name.
HeadLines ==
    { <<>>,
      <<<<"x">>>>,
      <<<<"G","u","e","r","r","e","r","o">>, <<"x">>>>,
      <<<<"x">>, <<"x">>, <<"x">>>> }

\* The lines of the name: absent, on one line, split over two lines.
NameLines ==
    { <<>>,
      <<<<"E","d","d","i","e"," ","G","u","e","r","r","e","r","o",","," ","V","P">>>>,
      <<<<"E","d","d","i","e">>, <<"G","u","e","r","r","e","r","o",","," ","V","P">>>>,
      <<<<"G","u","e","r","r","e","r","o">>, <<"E","d","d","i","e">>>> }

\* The lines of the URL: none; start, continuation and slug lines; a candidate without the path marker before a valid one; two valid candidates; a start without continuation;
\* a slug line after a line without one; a whole URL on one line, alone and before a continuation line.
UrlLines ==
    { <<>>,
      <<<<"h","t","t","p",":","/","/","w","w","w",".","l","i","n">>, <<"k","e","d","i","n",".","c","o","m","/","i","n","/","e">>, <<"d","d","i","e","-","g","u","e","r","r","e","r","o","-","4","2">>>>,
      <<<<"s","e","e"," ","h","t","t","p",":","/","/","w","w","w",".","l","i","n">>, <<"x"," ","k","e","d","i","n",".","c","o","m","/","i","n","/","e","g"," ","n","o","w">>>>,
      <<<<"h","t","t","p",":","/","/","w","w","w",".","l","i","n">>, <<"k","e","d","i","n",".","c","o","m","/","i","n","/","e">>, <<"d","d","i","e","-","g","u","e","r","r","e","r","o","-">>, <<"4","2",".">>, <<"x">>>>,
      <<<<"h","t","t","p",":","/","/","w","w","w",".","l","i","n">>, <<"k","e","d","i","n",".","c","o","m","/","i","n","/","e">>, <<"E","d","d","i","e","-","g","u","e","r","r","e","r","o">>>>,
      <<<<"h","t","t","p",":","/","/","w","w","w",".","l","i","n">>, <<"k","e","d","i","n",".","n","e","t","/","e">>, <<"h","t","t","p",":","/","/","w","w","w",".","l","i","n">>, <<"k","e","d","i","n",".","c","o","m","/","i","n","/","e","g">>>>,
      <<<<"h","t","t","p",":","/","/","w","w","w",".","l","i","n">>, <<"k","e","d","i","n",".","c","o","m","/","i","n","/","a","1">>, <<"h","t","t","p",":","/","/","w","w","w",".","l","i","n">>, <<"k","e","d","i","n",".","c","o","m","/","i","n","/","b","2">>>>,
      <<<<"h","t","t","p",":","/","/","w","w","w",".","l","i","n">>>>,
      <<<<"h","t","t","p",":","/","/","w","w","w",".","l","i","n">>, <<"k","e","d","i","n",".","c","o","m","/","i","n","/","e","g","-">>, <<"t","h","e">>>>,
      <<<<"w","w","w",".","l","i","n","k","e","d","i","n">>, <<".","c","o","m","/","i","n","/","e","g">>, <<"a","-","1"," ","-">>, <<"-">>>>,
      <<<<"h","t","t","p",":","/","/","w","w","w",".","l","i","n">>, <<"x">>, <<"h","t","t","p",":","/","/","w","w","w",".","l","i","n">>, <<"k","e","d","i","n",".","n","e","t","/","e">>>>,
      <<<<"h","t","t","p",":","/","/","w","w","w",".","l","i","n">>, <<"k","e","d","i","n",".","c","o","m","/","i","n","/","e","g">>, <<"x">>, <<"e","d","d","i","e","-","1">>>>,
      <<<<"h","t","t","p","s",":","/","/","w","w","w",".","l","i","n","k","e","d","i","n",".","c","o","m","/","i","n","/","m","s","t","e","v","e","n","s">>>>,
      <<<<"s","e","e"," ","h","t","t","p","s",":","/","/","w","w","w",".","l","i","n","k","e","d","i","n",".","c","o","m","/","i","n","/","m","s","t","e","v","e","n","s">>, <<"k","e","d","i","n",".","c","o","m","/","i","n","/","e","g">>>> }

\* Most filler lines between the name and the URL.
MaxGap == 7

Filler == <<"x">>

RECURSIVE Fillers(_)
Fillers(n) == IF n = 0 THEN <<>> ELSE <<Filler>> \o Fillers(n - 1)

LinkTexts ==
    {JoinLines(h \o n \o Fillers(g) \o u) :
        h \in HeadLines, n \in NameLines, g \in 0..MaxGap, u \in UrlLines}

EddieGuerrero == <<"E","d","d","i","e"," ","G","u","e","r","r","e","r","o">>

\* The names: two parts, one short part and one long, only whitespace,
\* empty, missing.
LinkNames == {EddieGuerrero, <<"E","d"," ","G","u","e","r","r","e","r","o">>, <<" ">>, <<>>, None}

\* The texts every name is looked for in.
ExampleTexts ==
    {None, <<>>,
     JoinLines(<<<<"E","d","d","i","e">>, <<"G","u","e","r","r","e","r","o">>, <<"h","t","t","p",":","/","/","w","w","w",".","l","i","n">>, <<"k","e","d","i","n",".","c","o","m","/","i","n","/","e">>, <<"d","d","i","e","-","g","u","e","r","r","e","r","o","-","4","2">>>>),
     JoinLines(<<<<"x">>, <<"h","t","t","p",":","/","/","w","w","w",".","l","i","n">>, <<"k","e","d","i","n",".","c","o","m","/","i","n","/","e","d","-","1">>>>),
     JoinLines(<<<<"E","d"," ","G","u","e","r","r","e","r","o">>, <<"h","t","t","p",":","/","/","w","w","w",".","l","i","n">>, <<"k","e","d","i","n",".","c","o","m","/","i","n","/","e">>, <<"e","d","-","x"," ","n","o","w">>, <<"g","u","e","r","r","e","r","o","-","x">>>>)}

InitLinkedin ==
    /\ \/ link_text \in LinkTexts /\ link_name = EddieGuerrero
       \/ link_text \in ExampleTexts /\ link_name \in LinkNames
    /\ anchor_idx = -1
    /\ found_url = Unset
    /\ lpc = "call"
    /\ text = <<>>
    /\ contact_name = <<>>
    /\ repaired = Unset
    /\ rpath = "idle"
    /\ csv_text = <<>>
    /\ research_text = <<>>
    /\ target_industry = Unset
    /\ report = Unset
    /\ cpc = "idle"
    /\ inputs = NoInputs
    /\ qpilot_text = <<>>
    /\ playbook_text = <<>>
    /\ solved_challenges_processed = <<>>
    /\ payload_parts = <<>>
    /\ payload = Unset
    /\ ppc = "idle"
    /\ event_id = Unset
    /\ company_id = Unset
    /\ qpilot_path = Unset
    /\ research_doc = "none"
    /\ runner_calls = <<>>
    /\ deck_markdown = Unset
    /\ saved_decks = <<>>
    /\ apc = "idle"
    /\ have_key = FALSE
    /\ api_form = "paged"
    /\ api_pages = 0
    /\ all_themes = <<>>
    /\ cursor = 0
    /\ page_requests = 0
    /\ tpc = "idle"
    /\ api_key_set = FALSE
    /\ max_attempts = 0
    /\ attempt = 0
    /\ poll_log = <<>>
    /\ generation_id = None
    /\ gen_result = [ok |-> FALSE, export_url |-> None, generation_id |-> None, error |-> "unset"]
    /\ gpc = "idle"
    /\ cfg_key_set = FALSE
    /\ requests_made = <<>>
    /\ last_err = "None"
    /\ profile_result = [ok |-> FALSE, status_code |-> 0, error |-> "unset"]
    /\ fpc = "idle"

NextLinkedin ==
    \/ ReturnNoInput
    \/ LocateContact
    \/ ReturnNotLocated
    \/ ReturnBestUrl
    \/ ReturnNoUrl

SpecLinkedin == InitLinkedin /\ [][NextLinkedin]_vars

(***************************************************************************)
(* Properties of _extract_linkedin_for_contact                             *)
(***************************************************************************)
\* The contact was looked for: anchor_idx is what step 1 found.
ContactLookedFor == lpc \in {"located", "notlocated", "url", "nourl"}

\* Every part of the name is in the string, in any letter case.
HasWholeName(str) ==
    \A p \in DOMAIN ContactParts(link_name) : Contains(Lower(str), ContactParts(link_name)[p])

\* Some part of the name is in the string, in any letter case.
HasSomeOfName(str) ==
    \E p \in DOMAIN ContactParts(link_name) : Contains(Lower(str), ContactParts(link_name)[p])

\* The lines i (from 0) that have the whole name together with the next line.
WholeNamePairs ==
    LET lines == SplitLines(link_text)
    IN  {i \in 0..(Len(lines) - 2) :
            HasWholeName(lines[i + 1] \o <<" ">> \o lines[i + 2])}

NoLineHasWholeName ==
    \A n \in DOMAIN SplitLines(link_text) : ~HasWholeName(SplitLines(link_text)[n])

\* C14: when no single line has every part of the name and lines i, i + 1
\* are the first two adjacent lines that, joined by a space, have every part,
\* the anchor is i, whatever line the single-line pass had selected.
C14_SplitNameAnchorsAtFirstPair ==
    (ContactLookedFor /\ NoLineHasWholeName /\ WholeNamePairs # {}) =>
        /\ anchor_idx \in WholeNamePairs
        /\ \A i \in WholeNamePairs : anchor_idx <= i

\* C14 witness: the name is split over lines i and i + 1, an earlier line has
\* one part of it (the line the single-line pass selects), and the anchor is i.
C14_Witness ==
    /\ ContactLookedFor
    /\ NoLineHasWholeName
    /\ anchor_idx \in WholeNamePairs
    /\ anchor_idx > 0
    /\ \E n \in 1..anchor_idx : HasSomeOfName(SplitLines(link_text)[n])
    /\ \A i \in WholeNamePairs : anchor_idx <= i

\* The call returned after an anchor was found.
ReturnedFromWindow == lpc \in {"url", "nourl"}

\* The window the claim describes for anchor a: the lines max(0, a - 2)
\* through min(L - 1, a + 8), of the L lines of the text.
ClaimedWindow(a) ==
    LET lines == SplitLines(link_text)
    IN  SubSeq(lines, Max({0, a - 2}) + 1, Min({Len(lines) - 1, a + 8}) + 1)

\* C15: the search window of anchor a is the 2 lines before the anchor, the
\* anchor line and the 8 lines after it, clipped to the text, so that the
\* result is the URL found in these lines: a wrapped URL that starts on line
\* a + 7 and continues on line a + 8 is found.
C15_WindowTwoBeforeEightAfter ==
    ReturnedFromWindow =>
        found_url = BestUrl(ClaimedWindow(anchor_idx), ContactParts(link_name))

\* The call returned after the contact was looked for.
ReturnedAfterLookup == lpc \in {"notlocated", "url", "nourl"}

NoLineHasSomeOfName ==
    \A n \in DOMAIN SplitLines(link_text) : ~HasSomeOfName(SplitLines(link_text)[n])

\* C16: when no line of the text has any part of the name, the URL is looked
\* for in the whole text: the result is the first valid wrapped URL of the
\* text, wherever it is.
C16_WholeTextWithoutAnchor ==
    (ReturnedAfterLookup /\ NoLineHasSomeOfName) =>
        found_url = BestUrl(SplitLines(link_text), ContactParts(link_name))

\* The window the code searched.
SearchedWindow == WindowLines(SplitLines(link_text), anchor_idx)

\* A start token as the claim describes it: it has 'http' or 'www' and ends in 'lin'.
ClaimedStart(t) == (Contains(t, <<"h","t","t","p">>) \/ Contains(t, <<"w","w","w">>)) /\ EndsWith(t, <<"l","i","n">>)

\* A continuation token as the claim describes it: it starts with 'kedin'.
ClaimedContinuation(t) == StartsWith(t, <<"k","e","d","i","n">>)

QualifiesAsSlug(t) == IsSlugToken(t, ContactParts(link_name))

\* The kinds of token the claims speak of.
TokenIs(kind, t) ==
    CASE kind = "start" -> IsStartToken(t)
      [] kind = "continuation" -> IsContinuationToken(t)
      [] kind = "claimed start" -> ClaimedStart(t)
      [] kind = "claimed continuation" -> ClaimedContinuation(t)
      [] kind = "slug" -> QualifiesAsSlug(t)

\* The first token of a line that is of the kind, <<>> when it has none.
TokenOfLine(line, kind) ==
    IF \E k \in DOMAIN Split(line) : TokenIs(kind, Split(line)[k])
    THEN Split(line)[Min({k \in DOMAIN Split(line) : TokenIs(kind, Split(line)[k])})]
    ELSE <<>>

\* s1 ... sk: the slug tokens of the consecutive lines from line n (from 1)
\* of the window on, without the punctuation that ends them, put together.
RECURSIVE SlugRun(_, _)
SlugRun(w, n) ==
    IF n > Len(w) THEN <<>>
    ELSE IF TokenOfLine(w[n], "slug") = <<>> THEN <<>>
    ELSE CleanToken(TokenOfLine(w[n], "slug")) \o SlugRun(w, n + 1)

\* C17, as the claim states it: when line i is the first line of the window
\* with a start token S whose next line has a continuation token C, and the
\* k lines that follow have the slug tokens s1..sk, the result is S C s1..sk
\* put together without separator.
C17_ResultIsConcatenation ==
    ReturnedFromWindow =>
        LET w      == SearchedWindow
            starts == {i \in 1..(Len(w) - 1) :
                          /\ TokenOfLine(w[i], "claimed start") # <<>>
                          /\ TokenOfLine(w[i + 1], "claimed continuation") # <<>>}
        IN  starts # {} =>
                found_url = TokenOfLine(w[Min(starts)], "claimed start")
                            \o TokenOfLine(w[Min(starts) + 1], "claimed continuation")
                            \o SlugRun(w, Min(starts) + 2)

\* S C s1..sk for the start line i (from 1) of window w, start and
\* continuation tokens as the code takes them ('lin' or 'linkedin' at the
\* end; 'kedin' or '.com' at the start), without '-', ',', '.', ';', ':' at
\* its ends.
TrimmedConcatenation(w, i) ==
    StripChars(TokenOfLine(w[i], "start")
               \o TokenOfLine(w[i + 1], "continuation")
               \o SlugRun(w, i + 2),
               {"-", ",", ".", ";", ":"})

\* The start lines of the window whose trimmed concatenation has the path marker.
ValidStarts(w) ==
    {i \in 1..(Len(w) - 1) :
        /\ TokenOfLine(w[i], "start") # <<>>
        /\ TokenOfLine(w[i + 1], "continuation") # <<>>
        /\ Contains(TrimmedConcatenation(w, i), <<"l","i","n","k","e","d","i","n",".","c","o","m","/","i","n","/">>)}

\* C17, amended: the result is S C s1..sk put together without separator,
\* the slug tokens without the punctuation that ends them and the whole
\* without '-', ',', '.', ';', ':' at its ends, for the first start line of
\* the window for which that string has the path marker; it is empty when
\* there is no such line.
C17_ResultIsTrimmedConcatenation ==
    ReturnedFromWindow =>
        IF ValidStarts(SearchedWindow) = {} THEN found_url = <<>>
        ELSE found_url = TrimmedConcatenation(SearchedWindow, Min(ValidStarts(SearchedWindow)))

\* C17 witness: the start line is followed by a continuation line and two
\* slug lines, the second slug token ends in punctuation, and the result is
\* the four tokens put together without it.
C17_Witness ==
    /\ lpc = "url"
    /\ ValidStarts(SearchedWindow) # {}
    /\ LET w == SearchedWindow
           i == Min(ValidStarts(SearchedWindow))
       IN  /\ Len(w) >= i + 3
           /\ TokenOfLine(w[i + 2], "slug") # <<>>
           /\ TokenOfLine(w[i + 3], "slug") # <<>>
           /\ CleanToken(TokenOfLine(w[i + 3], "slug")) # TokenOfLine(w[i + 3], "slug")
           /\ found_url = TokenOfLine(w[i], "start")
                          \o TokenOfLine(w[i + 1], "continuation")
                          \o TokenOfLine(w[i + 2], "slug")
                          \o CleanToken(TokenOfLine(w[i + 3], "slug"))

\* The start lines of the window: a start token, and a continuation token on
\* the next line.
StitchableStarts(w) ==
    {i \in 1..(Len(w) - 1) :
        /\ TokenOfLine(w[i], "start") # <<>>
        /\ TokenOfLine(w[i + 1], "continuation") # <<>>}

HasPathMarker(url) == Contains(url, <<"l","i","n","k","e","d","i","n",".","c","o","m","/","i","n","/">>)

\* C18: a result that is not empty has the path marker 'linkedin.com/in/';
\* a stitched candidate without the marker is passed over and the scan goes
\* on with the later lines of the window; the result is the first candidate,
\* in the order of the lines, that has the marker.
C18_ResultHasMarkerFirstValidWins ==
    /\ (lpc \in {"noinput", "notlocated", "url", "nourl"} /\ found_url # <<>>) =>
          HasPathMarker(found_url)
    /\ ReturnedFromWindow =>
          \A i \in StitchableStarts(SearchedWindow) :
              (/\ HasPathMarker(TrimmedConcatenation(SearchedWindow, i))
               /\ \A j \in StitchableStarts(SearchedWindow) :
                     j < i => ~HasPathMarker(TrimmedConcatenation(SearchedWindow, j)))
              => found_url = TrimmedConcatenation(SearchedWindow, i)

\* C18 witness: the first candidate of the window has no path marker, a later
\* one has it, and the later one is the result.
C18_Witness ==
    /\ lpc = "url"
    /\ \E j \in StitchableStarts(SearchedWindow) : \E i \in StitchableStarts(SearchedWindow) :
          /\ j < i
          /\ ~HasPathMarker(TrimmedConcatenation(SearchedWindow, j))
          /\ HasPathMarker(TrimmedConcatenation(SearchedWindow, i))
          /\ found_url = TrimmedConcatenation(SearchedWindow, i)

(***************************************************************************)
(* _build_input_payload: the research document is repaired for the         *)
(* contact's name and the profile URL is then looked for in the repaired   *)
(* text (inputs.linkedin_url not given).  text is research_text as read,   *)
(* repaired is research_text after the normalization.                      *)
(***************************************************************************)
\* "if inputs.contact_name: if research_text:" does not hold: the text is
\* kept as it was read.
SkipRepair ==
    /\ rpath = "call"
    /\ lpc = "idle"
    /\ Falsy(contact_name) \/ Falsy(text)
    /\ repaired' = text
    /\ rpath' = "skipped"
    /\ UNCHANGED <<text, contact_name>>
    /\ UNCHANGED casesVars
    /\ UNCHANGED linkVars
    /\ UNCHANGED payloadVars
    /\ UNCHANGED agentVars
    /\ UNCHANGED themeVars
    /\ UNCHANGED genVars
    /\ UNCHANGED profileVars

\* "found_linkedin = _extract_linkedin_for_contact(research_text, inputs.contact_name)"
ExtractFromResearch ==
    /\ rpath \in {"skipped", "fast", "single", "whitespace", "proximity"}
    /\ lpc = "idle"
    /\ link_text' = repaired
    /\ link_name' = contact_name
    /\ lpc' = "call"
    /\ UNCHANGED <<anchor_idx, found_url>>
    /\ UNCHANGED repairVars
    /\ UNCHANGED casesVars
    /\ UNCHANGED payloadVars
    /\ UNCHANGED agentVars
    /\ UNCHANGED themeVars
    /\ UNCHANGED genVars
    /\ UNCHANGED profileVars

\* Research documents: the name as the document has it, then the two lines of
\* a wrapped URL; a line before and a line after, or none.
UrlStartLine == <<"h","t","t","p",":","/","/","w","w","w",".","l","i","n">>

ResearchNameLines ==
    {<<<<"M","i","k","e">>, <<"S","t","o","n","e",","," ","V","P">>>>,
     <<<<"m","i","k","e"," ">>, <<" "," ","S","T","O","N","E">>>>,
     <<<<"M","i","k","e",","," ","C","E","O">>, <<"S","t","o","n","e">>>>,
     <<<<"M","i","k","e"," ","S","t","o","n","e",","," ","V","P">>>>,
     <<<<"M","i","k","e">>, <<"\\","S","t","o","n","e">>>>}

\* The line after the start of the URL: its rest, or other words.
ResearchSlugLines == {<<"k","e","d","i","n",".","c","o","m","/","i","n","/","m","s","t","o","n","e">>, <<"k","e","d","i","n",".","c","o","m","/","i","n","/","m","-","s","t","o","n","e","-","1">>, <<"s","e","e"," ","p","r","o","f","i","l","e">>}

ResearchDocs ==
    {<<>>}
    \cup {JoinLines(h \o n \o <<UrlStartLine, u>> \o t) :
            h \in {<<>>, <<<<"I","n","f","o">>>>}, n \in ResearchNameLines,
            u \in ResearchSlugLines, t \in {<<>>, <<<<"x">>>>}}

MikeStone == <<"M","i","k","e"," ","S","t","o","n","e">>

PipelineNames == {MikeStone, <<"M","i","k","e">>, <<"M","i","k","e"," ","\\","S","t","o","n","e">>, <<"J","o"," ","H","a","r","t">>, <<>>, None}

InitPipeline ==
    /\ text \in ResearchDocs
    /\ contact_name \in PipelineNames
    /\ repaired = Unset
    /\ rpath = "call"
    /\ csv_text = <<>>
    /\ research_text = <<>>
    /\ target_industry = Unset
    /\ report = Unset
    /\ cpc = "idle"
    /\ link_text = <<>>
    /\ link_name = <<>>
    /\ anchor_idx = -1
    /\ found_url = Unset
    /\ lpc = "idle"
    /\ inputs = NoInputs
    /\ qpilot_text = <<>>
    /\ playbook_text = <<>>
    /\ solved_challenges_processed = <<>>
    /\ payload_parts = <<>>
    /\ payload = Unset
    /\ ppc = "idle"
    /\ event_id = Unset
    /\ company_id = Unset
    /\ qpilot_path = Unset
    /\ research_doc = "none"
    /\ runner_calls = <<>>
    /\ deck_markdown = Unset
    /\ saved_decks = <<>>
    /\ apc = "idle"
    /\ have_key = FALSE
    /\ api_form = "paged"
    /\ api_pages = 0
    /\ all_themes = <<>>
    /\ cursor = 0
    /\ page_requests = 0
    /\ tpc = "idle"
    /\ api_key_set = FALSE
    /\ max_attempts = 0
    /\ attempt = 0
    /\ poll_log = <<>>
    /\ generation_id = None
    /\ gen_result = [ok |-> FALSE, export_url |-> None, generation_id |-> None, error |-> "unset"]
    /\ gpc = "idle"
    /\ cfg_key_set = FALSE
    /\ requests_made = <<>>
    /\ last_err = "None"
    /\ profile_result = [ok |-> FALSE, status_code |-> 0, error |-> "unset"]
    /\ fpc = "idle"

NextPipeline ==
    \/ SkipRepair
    \/ ReturnFastPath
    \/ ReturnSingleToken
    \/ RaiseTemplateError
    \/ ReturnWhitespaceRepair
    \/ ReturnProximity
    \/ ExtractFromResearch
    \/ ReturnNoInput
    \/ LocateContact
    \/ ReturnNotLocated
    \/ ReturnBestUrl
    \/ ReturnNoUrl

SpecPipeline == InitPipeline /\ [][NextPipeline]_vars

\* The places of the document as read where the claim's case happens: line i
\* has the first token of the two-token name, line i + 1 the second, line
\* i + 2 is 'http://www.lin' and line i + 3 is 'kedin.com/in/<slug>'.
WrappedProfilePlaces ==
    IF Falsy(text) \/ Falsy(contact_name) \/ Len(Split(contact_name)) # 2 THEN {}
    ELSE LET ls == SplitLines(text)
             ns == Split(contact_name)
         IN  {i \in 1..(Len(ls) - 3) :
                 /\ Contains(ls[i], ns[1])
                 /\ Contains(ls[i + 1], ns[2])
                 /\ ls[i + 2] = UrlStartLine
                 /\ StartsWith(ls[i + 3], <<"k","e","d","i","n",".","c","o","m","/","i","n","/">>)
                 /\ Len(ls[i + 3]) > Len(<<"k","e","d","i","n",".","c","o","m","/","i","n","/">>)}

PipelineReturned == lpc \in {"noinput", "notlocated", "url", "nourl"}

\* The outcome the claim describes for the place i: the repaired text has the
\* literal name, the anchor line has the first name token, and the result is
\* the two URL lines joined.
YieldsProfileOf(i) ==
    /\ Contains(link_text, contact_name)
    /\ anchor_idx >= 0
    /\ anchor_idx < Len(SplitLines(link_text))
    /\ Contains(SplitLines(link_text)[anchor_idx + 1], Split(contact_name)[1])
    /\ found_url = UrlStartLine \o SplitLines(text)[i + 3]

\* C19: for a text in which the two tokens of the contact's name are on
\* consecutive lines and the next two lines are 'http://www.lin' and
\* 'kedin.com/in/<slug>', the repair followed by the lookup on the repaired
\* text goes through, and gives a text with the literal name, an anchor at a
\* line with the first name token, and 'http://www.linkedin.com/in/<slug>'.
C19_PipelineYieldsProfileUrl ==
    \A i \in WrappedProfilePlaces :
        /\ rpath # "raise"
        /\ PipelineReturned => YieldsProfileOf(i)

\* C19, the case that goes through: the name is split over two lines, the
\* repair rewrote the text and the lookup gave the URL the claim describes.
C19_Reached ==
    /\ PipelineReturned
    /\ rpath \in {"whitespace", "proximity"}
    /\ \E i \in WrappedProfilePlaces : YieldsProfileOf(i)

(***************************************************************************)
(* _build_input_payload: the list parts and the payload joined from it.    *)
(* contact_name is inputs.contact_name, repaired is research_text after    *)
(* the normalization, found_url is found_linkedin.  The backquote          *)
(* character is written "GRAVE".                                           *)
(***************************************************************************)
\* `v or 'N/A'`
OrNotAvailable(v) == IF Falsy(v) THEN <<"N","/","A">> ELSE v

\* final_linkedin = inputs.linkedin_url or found_linkedin
FinalLinkedin == IF Falsy(inputs.linkedin_url) THEN found_url ELSE inputs.linkedin_url

\* linkedin_field
LinkedinField ==
    IF Falsy(FinalLinkedin) THEN <<"N","/","A">>
    ELSE FinalLinkedin \o <<" ","(","A","C","T","I","O","N"," ","R","E","Q","U","I","R","E","D",":"," ","F","E","T","C","H"," ","P","R","O","F","I","L","E",")">>

\* The parts the list starts with: the two context sections.
ContextParts ==
    << <<"Y","o","u"," ","a","r","e"," ","t","h","e"," ","M","e","e","t","i","n","g"," ","P","r","e","p"," ","S","p","e","c","i","a","l","i","s","t"," ","A","g","e","n","t",".","\n">>,
       <<"U","s","e"," ","t","h","e"," ","f","o","l","l","o","w","i","n","g"," ","i","n","p","u","t","s"," ","t","o"," ","c","r","e","a","t","e"," ","a"," ","G","a","m","m","a","-","r","e","a","d","y"," ","M","e","e","t","i","n","g"," ","B","r","i","e","f"," ","d","e","c","k",".","\n","\n">>,
       <<"#"," ","M","E","E","T","I","N","G"," ","C","O","N","T","E","X","T","\n">>,
       <<"A","t","t","e","n","d","e","e",":"," ">> \o contact_name \o <<"\n">>,
       <<"T","i","t","l","e",":"," ">> \o inputs.title \o <<"\n">>,
       <<"C","o","m","p","a","n","y",":"," ">> \o inputs.company_name \o <<"\n">>,
       <<"E","m","a","i","l",":"," ">> \o OrNotAvailable(inputs.email) \o <<"\n">>,
       <<"L","i","n","k","e","d","I","n",":"," ">> \o LinkedinField \o <<"\n">>,
       <<"R","e","g","i","o","n","/","C","i","t","y",":"," ">> \o OrNotAvailable(inputs.region_city) \o <<"\n">>,
       <<"G","T","M"," ","V","e","n","d","o","r"," ","(","U","s",")",":"," ">> \o inputs.gtm_vendor \o <<"\n", "\n">>,
       <<"#"," ","S","T","R","A","T","E","G","Y"," ","C","O","N","T","E","X","T","\n">>,
       <<"M","e","e","t","i","n","g"," ","A","g","e","n","d","a",":"," ">> \o OrNotAvailable(inputs.meeting_agenda) \o <<"\n">>,
       <<"U","l","t","i","m","a","t","e"," ","G","o","a","l"," ","(","A","E"," ","G","o","a","l",")",":"," ">> \o OrNotAvailable(inputs.ae_goal) \o <<"\n", "\n">> >>

\* The parts of a document section: its heading, the text, a blank line.
SectionParts(heading, doc) == <<heading, doc, <<"\n", "\n">> >>

QPilotHeading == <<"#"," ","I","N","P","U","T",":"," ","Q","-","P","i","l","o","t"," ","D","o","c","u","m","e","n","t","\n">>
ResearchHeading == <<"#"," ","I","N","P","U","T",":"," ","R","e","s","e","a","r","c","h"," ","D","o","c","u","m","e","n","t","\n">>
PlaybookHeading == <<"#"," ","I","N","P","U","T",":"," ","P","l","a","y","b","o","o","k"," ","D","o","c","u","m","e","n","t","\n">>
SolvedHeading == <<"#"," ","I","N","P","U","T",":"," ","S","o","l","v","e","d"," ","C","h","a","l","l","e","n","g","e","s"," ","D","o","c","u","m","e","n","t","\n">>

\* The parts the list ends with.
TaskParts ==
    << <<"#"," ","T","A","S","K","\n">>,
       <<"S","y","n","t","h","e","s","i","z","e"," ","t","h","e","s","e"," ","i","n","p","u","t","s"," ","i","n","t","o"," ","t","h","e"," ","M","e","e","t","i","n","g"," ","B","r","i","e","f"," ","d","e","c","k",".","\n">>,
       <<"-"," ","C","R","I","T","I","C","A","L",":"," ","A"," ","L","i","n","k","e","d","I","n"," ","U","R","L"," ","i","s"," ","p","r","o","v","i","d","e","d"," ","i","n"," ","t","h","e"," ","C","o","n","t","e","x","t","."," ","Y","o","u"," ","M","U","S","T"," ","c","a","l","l"," ","t","h","e"," ","GRAVE","f","e","t","c","h","_","p","e","r","s","o","n","_","p","r","o","f","i","l","e","GRAVE"," ","t","o","o","l"," ","t","o"," ","g","e","t"," ","t","h","e"," ","b","i","o","g","r","a","p","h","y","."," ","D","o"," ","N","O","T"," ","s","k","i","p"," ","t","h","i","s"," ","s","t","e","p",".","\n">>,
       <<"-"," ","O","u","t","p","u","t"," ","M","U","S","T"," ","b","e"," ","c","l","e","a","n"," ","M","a","r","k","d","o","w","n",","," ","G","a","m","m","a","-","r","e","a","d","y",","," ","w","i","t","h"," ","GRAVE","#","GRAVE"," ","h","e","a","d","i","n","g","s"," ","a","n","d"," ","GRAVE","-","-","-","GRAVE"," ","s","e","p","a","r","a","t","o","r","s",".","\n">> >>

\* Mutant of HasContent: the text is tested as it is.
HasContentUnstripped(doc) == doc # <<>>

\* "if qpilot_text.strip():", and the same test of the other documents.
HasContent(doc) == Strip(doc) # <<>>

\* "".join(parts)
RECURSIVE JoinParts(_)
JoinParts(ps) == IF ps = <<>> THEN <<>> ELSE Head(ps) \o JoinParts(Tail(ps))

\* parts: list[str] = [...]
BuildContext ==
    /\ ppc = "context"
    /\ payload_parts' = ContextParts
    /\ ppc' = "qpilot"
    /\ UNCHANGED <<inputs, qpilot_text, playbook_text, solved_challenges_processed, payload>>
    /\ UNCHANGED repairVars
    /\ UNCHANGED casesVars
    /\ UNCHANGED linkVars
    /\ UNCHANGED agentVars
    /\ UNCHANGED themeVars
    /\ UNCHANGED genVars
    /\ UNCHANGED profileVars

\* One "if <doc>.strip(): parts.extend([...])": at, the position of the test;
\* next, the position after it.
ExtendWith(at, next, heading, doc) ==
    /\ ppc = at
    /\ HasContent(doc)
    /\ payload_parts' = payload_parts \o SectionParts(heading, doc)
    /\ ppc' = next
    /\ UNCHANGED <<inputs, qpilot_text, playbook_text, solved_challenges_processed, payload>>
    /\ UNCHANGED repairVars
    /\ UNCHANGED casesVars
    /\ UNCHANGED linkVars
    /\ UNCHANGED agentVars
    /\ UNCHANGED themeVars
    /\ UNCHANGED genVars
    /\ UNCHANGED profileVars

\* The same test, not passed: parts is left as it is.
LeaveOut(at, next, doc) ==
    /\ ppc = at
    /\ ~HasContent(doc)
    /\ ppc' = next
    /\ UNCHANGED <<inputs, qpilot_text, playbook_text, solved_challenges_processed,
                   payload_parts, payload>>
    /\ UNCHANGED repairVars
    /\ UNCHANGED casesVars
    /\ UNCHANGED linkVars
    /\ UNCHANGED agentVars
    /\ UNCHANGED themeVars
    /\ UNCHANGED genVars
    /\ UNCHANGED profileVars

AddQPilot == ExtendWith("qpilot", "research", QPilotHeading, qpilot_text)
SkipQPilot == LeaveOut("qpilot", "research", qpilot_text)
AddResearch == ExtendWith("research", "playbook", ResearchHeading, repaired)
SkipResearch == LeaveOut("research", "playbook", repaired)
AddPlaybook == ExtendWith("playbook", "solved", PlaybookHeading, playbook_text)
SkipPlaybook == LeaveOut("playbook", "solved", playbook_text)
AddSolvedChallenges ==
    ExtendWith("solved", "task", SolvedHeading, solved_challenges_processed)
SkipSolvedChallenges == LeaveOut("solved", "task", solved_challenges_processed)

\* parts.extend(["# TASK\n", ...])
AddTask ==
    /\ ppc = "task"
    /\ payload_parts' = payload_parts \o TaskParts
    /\ ppc' = "join"
    /\ UNCHANGED <<inputs, qpilot_text, playbook_text, solved_challenges_processed, payload>>
    /\ UNCHANGED repairVars
    /\ UNCHANGED casesVars
    /\ UNCHANGED linkVars
    /\ UNCHANGED agentVars
    /\ UNCHANGED themeVars
    /\ UNCHANGED genVars
    /\ UNCHANGED profileVars

\* return "".join(parts)
ReturnPayload ==
    /\ ppc = "join"
    /\ payload' = JoinParts(payload_parts)
    /\ ppc' = "done"
    /\ UNCHANGED <<inputs, qpilot_text, playbook_text, solved_challenges_processed,
                   payload_parts>>
    /\ UNCHANGED repairVars
    /\ UNCHANGED casesVars
    /\ UNCHANGED linkVars
    /\ UNCHANGED agentVars
    /\ UNCHANGED themeVars
    /\ UNCHANGED genVars
    /\ UNCHANGED profileVars

\* The inputs object: every field given, or the optional ones left at their
\* defaults.
PayloadInputs ==
    { [title |-> <<"V","P">>, company_name |-> <<"A","c","m","e">>, email |-> <<"m","@","a","c","m","e",".","i","o">>, linkedin_url |-> None,
       region_city |-> <<"A","u","s","t","i","n">>, gtm_vendor |-> <<"N","e","x","t"," ","Q","u","a","r","t","e","r">>, meeting_agenda |-> <<"D","e","m","o">>, ae_goal |-> <<"P","i","l","o","t">>],
      [title |-> <<>>, company_name |-> <<"A","c","m","e">>, email |-> None, linkedin_url |-> None,
       region_city |-> <<>>, gtm_vendor |-> <<"N","e","x","t"," ","Q","u","a","r","t","e","r">>, meeting_agenda |-> <<>>, ae_goal |-> <<>>],
      [title |-> <<"V","P">>, company_name |-> <<"A","c","m","e">>, email |-> None, linkedin_url |-> <<"h","t","t","p",":","/","/","w","w","w",".","l","i","n","k","e","d","i","n",".","c","o","m","/","i","n","/","m","s">>,
       region_city |-> <<>>, gtm_vendor |-> <<"N","e","x","t"," ","Q","u","a","r","t","e","r">>, meeting_agenda |-> <<"D","e","m","o">>, ae_goal |-> <<>>] }

\* The documents as read: none, whitespace only, or some text.
QPilotDocs == {<<>>, <<" ","\n">>, <<"Q","1">>}
ResearchTextsRepaired == {<<>>, <<"\t">>, <<"R","1"," ","\n">>}
PlaybookDocs == {<<>>, <<" "," ">>, <<"P","1">>}
\* The report of _get_relevant_solved_challenges, '' when there is no dataset.
SolvedReports == {<<>>, <<"N","o"," ","s","o","l","v","e","d"," ","c","h","a","l","l","e","n","g","e","s"," ","d","a","t","a"," ","f","o","u","n","d",".">>}
\* found_linkedin: looked for only when inputs.linkedin_url is not given.
FoundLinkedins(inp) == IF Falsy(inp.linkedin_url) THEN {<<>>, <<"h","t","t","p",":","/","/","w","w","w",".","l","i","n","k","e","d","i","n",".","c","o","m","/","i","n","/","m","s","t","o","n","e">>} ELSE {<<>>}

InitPayload ==
    /\ inputs \in PayloadInputs
    /\ contact_name = MikeStone
    /\ qpilot_text \in QPilotDocs
    /\ repaired \in ResearchTextsRepaired
    /\ playbook_text \in PlaybookDocs
    /\ solved_challenges_processed \in SolvedReports
    /\ found_url \in FoundLinkedins(inputs)
    /\ payload_parts = <<>>
    /\ payload = Unset
    /\ ppc = "context"
    /\ text = <<>>
    /\ rpath = "idle"
    /\ csv_text = <<>>
    /\ research_text = <<>>
    /\ target_industry = Unset
    /\ report = Unset
    /\ cpc = "idle"
    /\ link_text = <<>>
    /\ link_name = <<>>
    /\ anchor_idx = -1
    /\ lpc = "idle"
    /\ event_id = Unset
    /\ company_id = Unset
    /\ qpilot_path = Unset
    /\ research_doc = "none"
    /\ runner_calls = <<>>
    /\ deck_markdown = Unset
    /\ saved_decks = <<>>
    /\ apc = "idle"
    /\ have_key = FALSE
    /\ api_form = "paged"
    /\ api_pages = 0
    /\ all_themes = <<>>
    /\ cursor = 0
    /\ page_requests = 0
    /\ tpc = "idle"
    /\ api_key_set = FALSE
    /\ max_attempts = 0
    /\ attempt = 0
    /\ poll_log = <<>>
    /\ generation_id = None
    /\ gen_result = [ok |-> FALSE, export_url |-> None, generation_id |-> None, error |-> "unset"]
    /\ gpc = "idle"
    /\ cfg_key_set = FALSE
    /\ requests_made = <<>>
    /\ last_err = "None"
    /\ profile_result = [ok |-> FALSE, status_code |-> 0, error |-> "unset"]
    /\ fpc = "idle"

NextPayload ==
    \/ BuildContext
    \/ AddQPilot
    \/ SkipQPilot
    \/ AddResearch
    \/ SkipResearch
    \/ AddPlaybook
    \/ SkipPlaybook
    \/ AddSolvedChallenges
    \/ SkipSolvedChallenges
    \/ AddTask
    \/ ReturnPayload

SpecPayload == InitPayload /\ [][NextPayload]_vars

\* The index of the first occurrence of a heading in the payload, 0 when the
\* payload does not have it.
SectionAt(heading) ==
    LET hits == {i \in 1..Len(payload) : OccursAt(payload, i, heading)}
    IN  IF hits = {} THEN 0 ELSE Min(hits)

\* The headings in the claimed order, and the text of each document section.
SectionOrder ==
    << <<"#"," ","M","E","E","T","I","N","G"," ","C","O","N","T","E","X","T","\n">>,
       <<"#"," ","S","T","R","A","T","E","G","Y"," ","C","O","N","T","E","X","T","\n">>,
       QPilotHeading, ResearchHeading, PlaybookHeading, SolvedHeading,
       <<"#"," ","T","A","S","K","\n">> >>

DocumentSections == {3, 4, 5, 6}

DocumentOf(n) ==
    CASE n = 3 -> qpilot_text
      [] n = 4 -> repaired
      [] n = 5 -> playbook_text
      [] n = 6 -> solved_challenges_processed

\* C20: the payload returned always has the sections in the fixed order:
\* the meeting and strategy context, then the Q-Pilot, Research, Playbook and
\* Solved-Challenges sections, then the task instructions.  A document
\* section is there, its heading followed by its text, exactly when the text
\* is not empty after stripping whitespace; the context and task sections
\* are always there.
C20_SectionsInFixedOrder ==
    ppc = "done" =>
        /\ \A n \in DOMAIN SectionOrder \ DocumentSections : SectionAt(SectionOrder[n]) > 0
        /\ \A n \in DocumentSections :
              /\ SectionAt(SectionOrder[n]) > 0 <=> Strip(DocumentOf(n)) # <<>>
              /\ SectionAt(SectionOrder[n]) > 0 =>
                    OccursAt(payload, SectionAt(SectionOrder[n]) + Len(SectionOrder[n]),
                             DocumentOf(n))
        /\ \A a \in DOMAIN SectionOrder : \A b \in DOMAIN SectionOrder :
              (a < b /\ SectionAt(SectionOrder[a]) > 0 /\ SectionAt(SectionOrder[b]) > 0)
                  => SectionAt(SectionOrder[a]) < SectionAt(SectionOrder[b])

\* C20 witness: a payload was returned for a Q-Pilot text of whitespace only,
\* which has no section, and research and playbook texts that have theirs.
C20_Witness ==
    /\ ppc = "done"
    /\ qpilot_text # <<>> /\ SectionAt(QPilotHeading) = 0
    /\ SectionAt(ResearchHeading) > 0
    /\ SectionAt(PlaybookHeading) > SectionAt(ResearchHeading)
    /\ SectionAt(SolvedHeading) = 0

(***************************************************************************)
(* Name repair on texts long enough for the widest proximity gap.          *)
(***************************************************************************)
\* n characters between the tokens: 'x', with a newline now and then.
GapFill(n) == [i \in 1..n |-> IF i % 40 = 0 THEN "\n" ELSE "x"]

\* What comes before the far-apart tokens, and after them.
LongTextHeads == {<<>>, <<"a"," ","x"," ","B"," ">>}
LongTextTails == {<<>>, <<"B">>, <<" ","A"," ","B">>, <<"a"," ","\n","B">>}

\* 'A', a gap just under, at and just over the widest one, 'b'.
LongTexts ==
    {h \o <<"A">> \o GapFill(n) \o <<"b">> \o t :
        h \in LongTextHeads, t \in LongTextTails,
        n \in {ProximityGap - 1, ProximityGap, ProximityGap + 1}}

InitRepairLong ==
    /\ text \in TextsOf(2) \cup LongTexts
    /\ contact_name \in Names
    /\ repaired = Unset
    /\ rpath = "call"
    /\ csv_text = <<>>
    /\ research_text = <<>>
    /\ target_industry = Unset
    /\ report = Unset
    /\ cpc = "idle"
    /\ link_text = <<>>
    /\ link_name = <<>>
    /\ anchor_idx = -1
    /\ found_url = Unset
    /\ lpc = "idle"
    /\ inputs = NoInputs
    /\ qpilot_text = <<>>
    /\ playbook_text = <<>>
    /\ solved_challenges_processed = <<>>
    /\ payload_parts = <<>>
    /\ payload = Unset
    /\ ppc = "idle"
    /\ event_id = Unset
    /\ company_id = Unset
    /\ qpilot_path = Unset
    /\ research_doc = "none"
    /\ runner_calls = <<>>
    /\ deck_markdown = Unset
    /\ saved_decks = <<>>
    /\ apc = "idle"
    /\ have_key = FALSE
    /\ api_form = "paged"
    /\ api_pages = 0
    /\ all_themes = <<>>
    /\ cursor = 0
    /\ page_requests = 0
    /\ tpc = "idle"
    /\ api_key_set = FALSE
    /\ max_attempts = 0
    /\ attempt = 0
    /\ poll_log = <<>>
    /\ generation_id = None
    /\ gen_result = [ok |-> FALSE, export_url |-> None, generation_id |-> None, error |-> "unset"]
    /\ gpc = "idle"
    /\ cfg_key_set = FALSE
    /\ requests_made = <<>>
    /\ last_err = "None"
    /\ profile_result = [ok |-> FALSE, status_code |-> 0, error |-> "unset"]
    /\ fpc = "idle"

SpecRepairLong == InitRepairLong /\ [][NextRepair]_vars

\* The first and the last token of the name.
FirstNameToken == Split(contact_name)[1]
LastNameToken == Split(contact_name)[Len(Split(contact_name))]

\* The widest stretch between the two tokens of a span.
WidestBetween == 200

\* The ends e of the spans [i, e) of t that start at i: the first token at i,
\* at most WidestBetween characters of any kind, the last token; any case.
SpanEnds(t, i) ==
    IF ~TokenAt(t, i, FirstNameToken) THEN {}
    ELSE {i + Len(FirstNameToken) + g + Len(LastNameToken) :
             g \in {g \in 0..WidestBetween :
                      TokenAt(t, i + Len(FirstNameToken) + g, LastNameToken)}}

\* The spans of t taken from left to right from index pos on, each the
\* shortest at its start, none overlapping the one before.
RECURSIVE SpansFrom(_, _)
SpansFrom(t, pos) ==
    LET starts == {i \in pos..Len(t) : SpanEnds(t, i) # {}}
    IN  IF starts = {} THEN <<>>
        ELSE <<[s |-> Min(starts), e |-> Min(SpanEnds(t, Min(starts)))]>>
                 \o SpansFrom(t, Min(SpanEnds(t, Min(starts))))

\* What is put in before a span: the name and one space.
Injected == contact_name \o <<" ">>

C25_TooWideWitness ==
    /\ rpath = "proximity"
    /\ SpansFrom(text, 1) = <<>>
    /\ repaired = text
    /\ \E i \in DOMAIN text : \E k \in DOMAIN text :
          /\ TokenAt(text, i, FirstNameToken)
          /\ TokenAt(text, k, LastNameToken)
          /\ k - (i + Len(FirstNameToken)) = WidestBetween + 1

(***************************************************************************)
(* _repair_contact_name_in_text as a function of its arguments, for calls  *)
(* on the result of a call: [raised, out], by the return paths above.      *)
(***************************************************************************)
RepairOutcome(t, name) ==
    IF Falsy(t) \/ Falsy(name) THEN [raised |-> FALSE, out |-> t]
    ELSE IF AlreadyPresent(t, name) THEN [raised |-> FALSE, out |-> t]
    ELSE IF Len(Split(name)) < 2 THEN [raised |-> FALSE, out |-> t]
    ELSE IF ~ExpandTemplate(name, 1).ok THEN [raised |-> TRUE, out |-> Unset]
    ELSE IF WhitespaceSubn(t, name).count > 0
         THEN [raised |-> FALSE, out |-> WhitespaceSubn(t, name).out]
    ELSE [raised |-> FALSE, out |-> ProximitySubn(t, name)]

\* C28: the repair returns for every text and name; repairing the result
\* again with the same name gives the same result; and a result that is not
\* the input has the literal name in it.
C28_IdempotentAndLiteralOrUnchanged ==
    /\ rpath # "raise"
    /\ Returned =>
          /\ repaired = RepairOutcome(text, contact_name).out
          /\ ~RepairOutcome(repaired, contact_name).raised
          /\ RepairOutcome(repaired, contact_name).out = repaired
          /\ repaired # text => Contains(repaired, contact_name)

\* C28, the case that goes well: the call changed the text, the literal name
\* is in the result, and a second call returns the result as it is.
C28_Reached ==
    /\ Returned
    /\ repaired # text
    /\ Contains(repaired, contact_name)
    /\ RepairOutcome(repaired, contact_name).out = repaired

\* The customers of the rows that match the inferred industry, in source order.
MatchingCustomers == CustomersOfIndustry(DataRows, 1, target_industry, TRUE)

\* C29: a report never has more than 30 entries, with or without an inferred
\* industry; when an industry was inferred and more than 30 rows match it,
\* the entries are the first 30 matching rows in source order and the
\* truncation marker comes after them, as the last line.
C29_NeverMoreThanThirtyEntries ==
    /\ FilterReturned => Len(Entries) <= 30
    /\ (FilterReturned /\ EveryRowHasIndustry /\ ~Falsy(target_industry)
          /\ Len(MatchingCustomers) > 30) =>
          /\ Entries = FirstN(MatchingCustomers, 30)
          /\ report[Len(report)].fmt = "... (List truncated for length)"
          /\ \A n \in DOMAIN report :
                report[n].fmt = "... (List truncated for length)" => n = Len(report)

\* C29 witness: an industry was inferred, more than 30 rows match it and
\* others do not, and the report has 30 entries and ends with the marker.
C29_Witness ==
    /\ FilterReturned /\ EveryRowHasIndustry
    /\ ~Falsy(target_industry)
    /\ Len(MatchingCustomers) > 30
    /\ Len(AllCustomers(DataRows, 1)) > Len(MatchingCustomers)
    /\ Len(Entries) = 30
    /\ report[Len(report)].fmt = "... (List truncated for length)"

\* The number of name tokens a line has as substrings, in any letter case.
TokensInLine(line) ==
    Cardinality({p \in DOMAIN ContactParts(link_name) :
                    Contains(Lower(line), ContactParts(link_name)[p])})

\* The lines (from 0) with the greatest number of name tokens.
FullestLines ==
    LET lines == SplitLines(link_text)
    IN  {n \in 0..(Len(lines) - 1) :
            \A m \in 0..(Len(lines) - 1) : TokensInLine(lines[m + 1]) <= TokensInLine(lines[n + 1])}

\* C26: when some line has every token of the name, the anchor is the first
\* of the lines with the greatest number of name tokens (any letter case),
\* whatever pairs of lines there are; the contact is reported not found
\* exactly when no line of the text has a token of the name.
C26_FirstFullestLineFoundIffSomeToken ==
    ContactLookedFor =>
        /\ (\E n \in DOMAIN SplitLines(link_text) : HasWholeName(SplitLines(link_text)[n])) =>
              (anchor_idx \in FullestLines /\ \A n \in FullestLines : anchor_idx <= n)
        /\ anchor_idx = -1 <=> NoLineHasSomeOfName

\* C26, the case that goes as claimed: two lines have the whole name, a line
\* before them has one token only, and the anchor is the first of the two.
C26_Reached ==
    /\ ContactLookedFor
    /\ Len(ContactParts(link_name)) >= 2
    /\ Cardinality(FullestLines) >= 2
    /\ anchor_idx > 0
    /\ HasWholeName(SplitLines(link_text)[anchor_idx + 1])
    /\ \A n \in FullestLines : anchor_idx <= n
    /\ \E n \in 1..anchor_idx : HasSomeOfName(SplitLines(link_text)[n])

\* A string that qualifies as the claim has it: lowercase, only letters,
\* digits and hyphens, no stop-word, and with a part of the contact's name
\* (of more than two characters), a digit, or being a single hyphen.
QualifyingString(str) ==
    /\ str # <<>>
    /\ \A k \in DOMAIN str : str[k] \in LowerLetters \cup Digits \cup {"-"}
    /\ str \notin StopWords
    /\ \/ \E p \in DOMAIN ContactParts(link_name) :
             Len(ContactParts(link_name)[p]) > 2 /\ Contains(str, ContactParts(link_name)[p])
       \/ \E k \in DOMAIN str : str[k] \in Digits
       \/ str = <<"-">>

\* What a token is tested and appended as: itself, or itself without the
\* ',', '.', ';', '!', ':' that end it.
TokenAs(t, trimmed) == IF trimmed THEN CleanToken(t) ELSE t

\* What a line contributes: its first qualifying token, <<>> when it has none.
Contribution(line, trimmed) ==
    LET tokens == Split(line)
        hits   == {k \in DOMAIN tokens : QualifyingString(TokenAs(tokens[k], trimmed))}
    IN  IF hits = {} THEN <<>> ELSE TokenAs(tokens[Min(hits)], trimmed)

\* The contributions of the consecutive lines from line n (from 1) of the
\* window on, up to the first line that contributes nothing.
RECURSIVE Extension(_, _, _)
Extension(w, n, trimmed) ==
    IF n > Len(w) THEN <<>>
    ELSE IF Contribution(w[n], trimmed) = <<>> THEN <<>>
    ELSE Contribution(w[n], trimmed) \o Extension(w, n + 1, trimmed)

\* The URL of start line i (from 1) of the window: start token, continuation
\* token and the extension from two lines after the start line, without
\* '-', ',', '.', ';', ':' at its ends.
ExtendedUrl(w, i, trimmed) ==
    StripChars(TokenOfLine(w[i], "start") \o TokenOfLine(w[i + 1], "continuation")
               \o Extension(w, i + 2, trimmed),
               {"-", ",", ".", ";", ":"})

\* The start lines of the window whose extended URL has the path marker.
ExtendedStarts(w, trimmed) ==
    {i \in StitchableStarts(w) : HasPathMarker(ExtendedUrl(w, i, trimmed))}

\* C27, as the claim states it: the slug of the returned URL is extended
\* from two lines after the start token's line, each successive line of the
\* window contributing its first qualifying token only, up to the first line
\* without one; a token qualifies only if it is lowercase, of letters, digits
\* and hyphens only, no stop-word, and has a part of the contact's name, a
\* digit, or is a single hyphen.
C27_ExtensionOfQualifyingTokens ==
    ReturnedFromWindow =>
        IF ExtendedStarts(SearchedWindow, FALSE) = {} THEN found_url = <<>>
        ELSE found_url = ExtendedUrl(SearchedWindow, Min(ExtendedStarts(SearchedWindow, FALSE)), FALSE)

\* C27, amended: as above, with each token tested and contributed without
\* the ',', '.', ';', '!', ':' that end it, so that a token such as '42.'
\* qualifies and contributes '42'.
C27_ExtensionOfTrimmedQualifyingTokens ==
    ReturnedFromWindow =>
        IF ExtendedStarts(SearchedWindow, TRUE) = {} THEN found_url = <<>>
        ELSE found_url = ExtendedUrl(SearchedWindow, Min(ExtendedStarts(SearchedWindow, TRUE)), TRUE)

\* C27 witness: the first line after the continuation line has two
\* qualifying tokens of which the first only is in the result, and the
\* extension goes on with the next line.
C27_Witness ==
    /\ lpc = "url"
    /\ ExtendedStarts(SearchedWindow, TRUE) # {}
    /\ LET w == SearchedWindow
           i == Min(ExtendedStarts(SearchedWindow, TRUE))
       IN  /\ Len(w) >= i + 3
           /\ Cardinality({k \in DOMAIN Split(w[i + 2]) :
                              QualifyingString(CleanToken(Split(w[i + 2])[k]))}) >= 2
           /\ Contribution(w[i + 3], TRUE) # <<>>
           /\ found_url = StripChars(TokenOfLine(w[i], "start") \o TokenOfLine(w[i + 1], "continuation")
                              \o Contribution(w[i + 2], TRUE) \o Contribution(w[i + 3], TRUE),
                              {"-", ",", ".", ";", ":"})

\* C27, second case: a line without a qualifying token ends the extension
\* although the line after it has one.
C27_StoppedWitness ==
    /\ lpc = "url"
    /\ ExtendedStarts(SearchedWindow, TRUE) # {}
    /\ LET w == SearchedWindow
           i == Min(ExtendedStarts(SearchedWindow, TRUE))
       IN  /\ Len(w) >= i + 3
           /\ Contribution(w[i + 2], TRUE) = <<>>
           /\ Contribution(w[i + 3], TRUE) # <<>>
           /\ found_url = TokenOfLine(w[i], "start") \o TokenOfLine(w[i + 1], "continuation")

\* C27, third case: a part of the name of two characters does not make a
\* token qualify.
C27_ShortPartWitness ==
    /\ lpc = "url"
    /\ ExtendedStarts(SearchedWindow, TRUE) # {}
    /\ LET w == SearchedWindow
           i == Min(ExtendedStarts(SearchedWindow, TRUE))
       IN  /\ Len(w) >= i + 2
           /\ Contribution(w[i + 2], TRUE) = <<>>
           /\ \E k \in DOMAIN Split(w[i + 2]) : \E p \in DOMAIN ContactParts(link_name) :
                 /\ Len(ContactParts(link_name)[p]) = 2
                 /\ Contains(Split(w[i + 2])[k], ContactParts(link_name)[p])
                 /\ \A c \in DOMAIN Split(w[i + 2])[k] :
                       Split(w[i + 2])[k][c] \in LowerLetters \cup Digits \cup {"-"}

\* The tokens of a line, as a set.
TokenSet(line) == {Split(line)[k] : k \in DOMAIN Split(line)}

\* The line has a token that ends in 'lin' or 'linkedin' and has 'http' or 'www'.
HasWrappedStart(line) ==
    \E k \in DOMAIN Split(line) :
        LET t == Split(line)[k]
        IN  /\ Len(t) >= 3
            /\ SubSeq(t, Len(t) - 2, Len(t)) = <<"l","i","n">>
               \/ (Len(t) >= 8 /\ SubSeq(t, Len(t) - 7, Len(t)) = <<"l","i","n","k","e","d","i","n">>)
            /\ Contains(t, <<"h","t","t","p">>) \/ Contains(t, <<"w","w","w">>)

\* The line has a token that begins with 'kedin' or '.com'.
HasWrappedRest(line) ==
    \E k \in DOMAIN Split(line) :
        LET t == Split(line)[k]
        IN  \/ (Len(t) >= 5 /\ SubSeq(t, 1, 5) = <<"k","e","d","i","n">>)
            \/ (Len(t) >= 4 /\ SubSeq(t, 1, 4) = <<".","c","o","m">>)

\* The lines i (from 1) of the window that start a wrapped URL continued on line i + 1.
WrappedPairs(w) == {i \in 1..(Len(w) - 1) : HasWrappedStart(w[i]) /\ HasWrappedRest(w[i + 1])}

\* The tokens of the text that are a whole profile URL on one line.
UnbrokenUrls ==
    {t \in UNION {TokenSet(SplitLines(link_text)[n]) : n \in DOMAIN SplitLines(link_text)} :
        HasPathMarker(t) /\ (Contains(t, <<"h","t","t","p">>) \/ Contains(t, <<"w","w","w">>))}

C30_NotStartWitness ==
    /\ lpc = "nourl"
    /\ \E i \in 1..(Len(SearchedWindow) - 1) :
          /\ TokenSet(SearchedWindow[i]) \cap UnbrokenUrls # {}
          /\ HasWrappedRest(SearchedWindow[i + 1])
    /\ WrappedPairs(SearchedWindow) = {}

C30_DotComWitness ==
    /\ lpc = "url"
    /\ \E i \in WrappedPairs(SearchedWindow) :
          /\ \E k \in DOMAIN Split(SearchedWindow[i]) : EndsWith(Split(SearchedWindow[i])[k], <<"l","i","n","k","e","d","i","n">>)
          /\ \E k \in DOMAIN Split(SearchedWindow[i + 1]) : StartsWith(Split(SearchedWindow[i + 1])[k], <<".","c","o","m">>)
          /\ StartsWith(found_url, <<"w","w","w",".","l","i","n","k","e","d","i","n",".","c","o","m","/","i","n","/">>)

(***************************************************************************)
(* run_meeting_prep_agent: the identifiers are resolved, the payload is    *)
(* built by _build_input_payload (documents read, research repaired,       *)
(* profile URL looked for, parts joined), the agent is run on it and the   *)
(* deck it returns is saved.  No exception is caught on the way.           *)
(***************************************************************************)
\* os.path.splitext(filename)[0]: the name up to its last '.', when a
\* character other than '.' stands before it in the last path component.
SplitExtRoot(filename) ==
    LET seps == {i \in DOMAIN filename : filename[i] = "/"}
        sep  == IF seps = {} THEN 0 ELSE Max(seps)
        dots == {i \in DOMAIN filename : filename[i] = "."}
        dot  == IF dots = {} THEN 0 ELSE Max(dots)
    IN  IF dot > sep /\ \E i \in (sep + 1)..(dot - 1) : filename[i] # "."
        THEN SubSeq(filename, 1, dot - 1)
        ELSE filename

\* re.sub(r"[^a-z0-9]+", "-", value): every run of other characters becomes one '-'.
RECURSIVE DashRuns(_, _)
DashRuns(value, pos) ==
    IF pos > Len(value) THEN <<>>
    ELSE IF value[pos] \in LowerLetters \cup Digits
         THEN <<value[pos]>> \o DashRuns(value, pos + 1)
         ELSE IF pos > 1 /\ value[pos - 1] \notin LowerLetters \cup Digits
              THEN DashRuns(value, pos + 1)
              ELSE <<"-">> \o DashRuns(value, pos + 1)

\* slugify: lowercase, runs of non-alphanumerics to '-', no '-' at the ends, 'default' when nothing is left.
slugify(value) ==
    LET slug == StripChars(DashRuns(Lower(value), 1), {"-"})
    IN  IF slug = <<>> THEN <<"d","e","f","a","u","l","t">> ELSE slug

infer_company_id_from_filename(filename) == slugify(SplitExtRoot(filename))

\* generate_event_id(): 'evt-' and eight hexadecimal digits of a fresh uuid.
GeneratedEventIds == {<<"e","v","t","-","0","a","1","b","2","c","3","d">>, <<"e","v","t","-","f","f","f","f","f","f","f","f">>}

\* "1) Resolve IDs"
ResolveIds ==
    /\ apc = "resolve"
    /\ \E generated \in GeneratedEventIds :
          event_id' = IF Falsy(event_id) THEN generated ELSE event_id
    /\ company_id' = IF ~Falsy(company_id) THEN company_id
                     ELSE IF qpilot_path # None THEN infer_company_id_from_filename(qpilot_path)
                     ELSE <<"u","n","k","n","o","w","n","_","c","o","m","p","a","n","y">>
    /\ apc' = "read"
    /\ UNCHANGED <<qpilot_path, research_doc, runner_calls, deck_markdown, saved_decks>>
    /\ UNCHANGED repairVars
    /\ UNCHANGED casesVars
    /\ UNCHANGED linkVars
    /\ UNCHANGED payloadVars
    /\ UNCHANGED themeVars
    /\ UNCHANGED genVars
    /\ UNCHANGED profileVars

\* _build_input_payload, "1. Read files": every document that is referred to
\* is read; text and qpilot_text are what the files hold.
ReadDocuments ==
    /\ apc = "read"
    /\ research_doc # "missing"
    /\ rpath' = "call"
    /\ apc' = "assemble"
    /\ UNCHANGED <<text, contact_name, repaired>>
    /\ UNCHANGED <<event_id, company_id, qpilot_path, research_doc, runner_calls, deck_markdown, saved_decks>>
    /\ UNCHANGED casesVars
    /\ UNCHANGED linkVars
    /\ UNCHANGED payloadVars
    /\ UNCHANGED themeVars
    /\ UNCHANGED genVars
    /\ UNCHANGED profileVars

\* files._ensure_path: "raise FileNotFoundError" when there is no file at storage_path.
ReadRaises ==
    /\ apc = "read"
    /\ research_doc = "missing"
    /\ apc' = "assembly raised"
    /\ UNCHANGED <<event_id, company_id, qpilot_path, research_doc, runner_calls, deck_markdown, saved_decks>>
    /\ UNCHANGED repairVars
    /\ UNCHANGED casesVars
    /\ UNCHANGED linkVars
    /\ UNCHANGED payloadVars
    /\ UNCHANGED themeVars
    /\ UNCHANGED genVars
    /\ UNCHANGED profileVars

\* The re.error of the normalization leaves _build_input_payload and
\* run_meeting_prep_agent: neither has a handler.
RepairRaises ==
    /\ apc = "assemble"
    /\ rpath = "raise"
    /\ apc' = "assembly raised"
    /\ UNCHANGED <<event_id, company_id, qpilot_path, research_doc, runner_calls, deck_markdown, saved_decks>>
    /\ UNCHANGED repairVars
    /\ UNCHANGED casesVars
    /\ UNCHANGED linkVars
    /\ UNCHANGED payloadVars
    /\ UNCHANGED themeVars
    /\ UNCHANGED genVars
    /\ UNCHANGED profileVars

\* The profile URL was looked for in the research; the playbook is empty and
\* gives ''; there is no solved challenges document: "solved_challenges_processed = ''".
ProcessSolvedChallenges ==
    /\ apc = "assemble"
    /\ lpc \in {"noinput", "notlocated", "url", "nourl"}
    /\ ppc = "idle"
    /\ solved_challenges_processed' = <<>>
    /\ ppc' = "context"
    /\ UNCHANGED <<inputs, qpilot_text, playbook_text, payload_parts, payload>>
    /\ UNCHANGED repairVars
    /\ UNCHANGED casesVars
    /\ UNCHANGED linkVars
    /\ UNCHANGED agentVars
    /\ UNCHANGED themeVars
    /\ UNCHANGED genVars
    /\ UNCHANGED profileVars

\* Mutant of CallRunner: the agent is run as soon as the documents are read.
CallRunnerEarly ==
    /\ apc = "assemble"
    /\ runner_calls' = Append(runner_calls, payload)
    /\ apc' = "running"
    /\ UNCHANGED <<event_id, company_id, qpilot_path, research_doc, deck_markdown, saved_decks>>
    /\ UNCHANGED repairVars
    /\ UNCHANGED casesVars
    /\ UNCHANGED linkVars
    /\ UNCHANGED payloadVars
    /\ UNCHANGED themeVars
    /\ UNCHANGED genVars
    /\ UNCHANGED profileVars

\* "payload = _build_input_payload(inputs)" has returned:
\* "result = Runner.run_sync(agent, input=payload)" is called.
CallRunner ==
    /\ apc = "assemble"
    /\ ppc = "done"
    /\ runner_calls' = Append(runner_calls, payload)
    /\ apc' = "running"
    /\ UNCHANGED <<event_id, company_id, qpilot_path, research_doc, deck_markdown, saved_decks>>
    /\ UNCHANGED repairVars
    /\ UNCHANGED casesVars
    /\ UNCHANGED linkVars
    /\ UNCHANGED payloadVars
    /\ UNCHANGED themeVars
    /\ UNCHANGED genVars
    /\ UNCHANGED profileVars

\* result.final_output: a deck, or None when the run gave no output.
FinalOutputs == {<<"#"," ","B","r","i","e","f">>, None}

\* Runner.run_sync returns: "deck_markdown = result.final_output"
RunnerReturns ==
    /\ apc = "running"
    /\ deck_markdown' \in FinalOutputs
    /\ apc' = "save"
    /\ UNCHANGED <<event_id, company_id, qpilot_path, research_doc, runner_calls, saved_decks>>
    /\ UNCHANGED repairVars
    /\ UNCHANGED casesVars
    /\ UNCHANGED linkVars
    /\ UNCHANGED payloadVars
    /\ UNCHANGED themeVars
    /\ UNCHANGED genVars
    /\ UNCHANGED profileVars

\* Runner.run_sync raises (the model call failed, the turn limit was hit).
RunnerRaises ==
    /\ apc = "running"
    /\ apc' = "generation raised"
    /\ UNCHANGED <<event_id, company_id, qpilot_path, research_doc, runner_calls, deck_markdown, saved_decks>>
    /\ UNCHANGED repairVars
    /\ UNCHANGED casesVars
    /\ UNCHANGED linkVars
    /\ UNCHANGED payloadVars
    /\ UNCHANGED themeVars
    /\ UNCHANGED genVars
    /\ UNCHANGED profileVars

\* "5) Persist" and the return: path.write_text(markdown) under event_id and the step.
SaveDeck ==
    /\ apc = "save"
    /\ deck_markdown # None
    /\ saved_decks' = Append(saved_decks, [event_id |-> event_id, step |-> "meeting_prep", markdown |-> deck_markdown])
    /\ apc' = "returned"
    /\ UNCHANGED <<event_id, company_id, qpilot_path, research_doc, runner_calls, deck_markdown>>
    /\ UNCHANGED repairVars
    /\ UNCHANGED casesVars
    /\ UNCHANGED linkVars
    /\ UNCHANGED payloadVars
    /\ UNCHANGED themeVars
    /\ UNCHANGED genVars
    /\ UNCHANGED profileVars

\* save_deck raises: the directory cannot be made or written to, or the
\* markdown is None (write_text takes a str only).
SaveRaises ==
    /\ apc = "save"
    /\ apc' = "save raised"
    /\ UNCHANGED <<event_id, company_id, qpilot_path, research_doc, runner_calls, deck_markdown, saved_decks>>
    /\ UNCHANGED repairVars
    /\ UNCHANGED casesVars
    /\ UNCHANGED linkVars
    /\ UNCHANGED payloadVars
    /\ UNCHANGED themeVars
    /\ UNCHANGED genVars
    /\ UNCHANGED profileVars

\* The calls: the research document with the name and no URL after it, or with
\* the name wrapped, whole, or with a backslash before the last name, and a
\* wrapped URL; the names; the file of the qpilot document and what it holds.
AgentDocs ==
    {JoinLines(<<<<"M","i","k","e"," ","S","t","o","n","e",","," ","V","P">>, UrlStartLine, <<"s","e","e"," ","p","r","o","f","i","l","e">>>>)}
    \cup {JoinLines(n \o <<UrlStartLine, <<"k","e","d","i","n",".","c","o","m","/","i","n","/","m","s","t","o","n","e">>>>) :
        n \in {<<<<"M","i","k","e">>, <<"S","t","o","n","e",","," ","V","P">>>>, <<<<"M","i","k","e"," ","S","t","o","n","e",","," ","V","P">>>>, <<<<"M","i","k","e">>, <<"\\","S","t","o","n","e">>>>}}

AgentNames == {MikeStone, <<"M","i","k","e"," ","\\","S","t","o","n","e">>, <<"A","n","n">>, <<"J","o"," ","H","a","r","t">>, <<>>}

QPilotFiles == {None, <<"A","c","m","e"," ","C","o",".","p","d","f">>, <<"-","-",".","m","d">>}

QPilotContent(path) == IF path = None THEN <<>> ELSE IF path = <<"A","c","m","e"," ","C","o",".","p","d","f">> THEN <<"Q","1">> ELSE <<" ","\n">>

InitAgent ==
    /\ inputs \in {p \in PayloadInputs : Falsy(p.linkedin_url)}
    /\ contact_name \in AgentNames
    /\ research_doc \in {"none", "missing", "file"}
    /\ text \in IF research_doc = "file" THEN AgentDocs ELSE {<<>>}
    /\ qpilot_path \in QPilotFiles
    /\ qpilot_text = QPilotContent(qpilot_path)
    /\ event_id \in {None, <<"e","x","p","o","-","2","4">>}
    /\ company_id \in {None, <<>>, <<"a","c","m","e">>}
    /\ playbook_text = <<>>
    /\ solved_challenges_processed = <<>>
    /\ payload_parts = <<>>
    /\ payload = Unset
    /\ ppc = "idle"
    /\ repaired = Unset
    /\ rpath = "idle"
    /\ csv_text = <<>>
    /\ research_text = <<>>
    /\ target_industry = Unset
    /\ report = Unset
    /\ cpc = "idle"
    /\ link_text = <<>>
    /\ link_name = <<>>
    /\ anchor_idx = -1
    /\ found_url = Unset
    /\ lpc = "idle"
    /\ runner_calls = <<>>
    /\ deck_markdown = Unset
    /\ saved_decks = <<>>
    /\ apc = "resolve"
    /\ have_key = FALSE
    /\ api_form = "paged"
    /\ api_pages = 0
    /\ all_themes = <<>>
    /\ cursor = 0
    /\ page_requests = 0
    /\ tpc = "idle"
    /\ api_key_set = FALSE
    /\ max_attempts = 0
    /\ attempt = 0
    /\ poll_log = <<>>
    /\ generation_id = None
    /\ gen_result = [ok |-> FALSE, export_url |-> None, generation_id |-> None, error |-> "unset"]
    /\ gpc = "idle"
    /\ cfg_key_set = FALSE
    /\ requests_made = <<>>
    /\ last_err = "None"
    /\ profile_result = [ok |-> FALSE, status_code |-> 0, error |-> "unset"]
    /\ fpc = "idle"

NextAgent ==
    \/ ResolveIds
    \/ ReadDocuments
    \/ ReadRaises
    \/ SkipRepair
    \/ ReturnFastPath
    \/ ReturnSingleToken
    \/ RaiseTemplateError
    \/ ReturnWhitespaceRepair
    \/ ReturnProximity
    \/ RepairRaises
    \/ ExtractFromResearch
    \/ ReturnNoInput
    \/ LocateContact
    \/ ReturnNotLocated
    \/ ReturnBestUrl
    \/ ReturnNoUrl
    \/ ProcessSolvedChallenges
    \/ BuildContext
    \/ AddQPilot
    \/ SkipQPilot
    \/ AddResearch
    \/ SkipResearch
    \/ SkipPlaybook
    \/ SkipSolvedChallenges
    \/ AddTask
    \/ ReturnPayload
    \/ CallRunner
    \/ RunnerReturns
    \/ RunnerRaises
    \/ SaveDeck
    \/ SaveRaises

SpecAgent == InitAgent /\ [][NextAgent]_vars

\* C21: when the agent has been run, _build_input_payload had returned and
\* the run was given the payload it returned; a deck is saved only once the
\* run has returned, and it is the deck the run returned; when the assembly
\* of the payload or the run raised, no deck is saved.
C21_PayloadThenRunThenSave ==
    /\ runner_calls # <<>> =>
          (ppc = "done" /\ payload # Unset /\ runner_calls = <<payload>>)
    /\ saved_decks # <<>> =>
          /\ runner_calls # <<>>
          /\ deck_markdown # Unset
          /\ apc = "returned"
          /\ saved_decks = <<[event_id |-> event_id, step |-> "meeting_prep", markdown |-> deck_markdown]>>
    /\ apc \in {"assembly raised", "generation raised"} => saved_decks = <<>>
    /\ apc = "assembly raised" => runner_calls = <<>>

\* C21 witness: the call returned: the payload was built with its research
\* section, the agent was run on it once and its deck was saved.
C21_Witness ==
    /\ apc = "returned"
    /\ ppc = "done"
    /\ SectionAt(ResearchHeading) > 0
    /\ runner_calls = <<payload>>
    /\ Len(saved_decks) = 1
    /\ saved_decks[1].markdown = deck_markdown

\* C21, the failures: the normalization of the research raised, or the file
\* was missing, or the run raised after the payload was built; nothing is saved.
C21_RepairRaisedWitness ==
    apc = "assembly raised" /\ rpath = "raise" /\ saved_decks = <<>> /\ runner_calls = <<>>

C21_ReadRaisedWitness ==
    apc = "assembly raised" /\ research_doc = "missing" /\ saved_decks = <<>> /\ runner_calls = <<>>

C21_RunRaisedWitness ==
    apc = "generation raised" /\ runner_calls = <<payload>> /\ saved_decks = <<>>

(***************************************************************************)
(* gamma_export.list_themes: the pages of the themes endpoint are fetched  *)
(* one after the other; a theme is its number, page k of the workspace has *)
(* the themes 2k-1 and 2k, and its nextCursor is k.                        *)
(***************************************************************************)
\* Most pages a workspace has.
MaxPagesServed == 21

\* "for _ in range(20):  # safety cap on pages"
MaxPageRequests == 20

\* The "data" of page k.
PageItems(k) == <<2 * k - 1, 2 * k>>

\* The items of pages from..to, in order.
RECURSIVE PagesItems(_, _)
PagesItems(from, to) ==
    IF from > to THEN <<>> ELSE PageItems(from) \o PagesItems(from + 1, to)

\* "if not api_key: return []"
ReturnNoKey ==
    /\ tpc = "call"
    /\ ~have_key
    /\ all_themes' = <<>>
    /\ tpc' = "no key"
    /\ UNCHANGED <<have_key, api_form, api_pages, cursor, page_requests>>
    /\ UNCHANGED repairVars
    /\ UNCHANGED casesVars
    /\ UNCHANGED linkVars
    /\ UNCHANGED payloadVars
    /\ UNCHANGED agentVars
    /\ UNCHANGED genVars
    /\ UNCHANGED profileVars

\* "all_themes = []; cursor = None" and the loop is entered.
StartPaging ==
    /\ tpc = "call"
    /\ have_key
    /\ all_themes' = <<>>
    /\ cursor' = 0
    /\ page_requests' = 0
    /\ tpc' = "fetch"
    /\ UNCHANGED <<have_key, api_form, api_pages>>
    /\ UNCHANGED repairVars
    /\ UNCHANGED casesVars
    /\ UNCHANGED linkVars
    /\ UNCHANGED payloadVars
    /\ UNCHANGED agentVars
    /\ UNCHANGED genVars
    /\ UNCHANGED profileVars

\* requests.get, raise_for_status or resp.json() raises: "break", and what
\* was collected is returned.
FetchFails ==
    /\ tpc = "fetch"
    /\ page_requests < MaxPageRequests
    /\ page_requests' = page_requests + 1
    /\ tpc' = "failed"
    /\ UNCHANGED <<have_key, api_form, api_pages, all_themes, cursor>>
    /\ UNCHANGED repairVars
    /\ UNCHANGED casesVars
    /\ UNCHANGED linkVars
    /\ UNCHANGED payloadVars
    /\ UNCHANGED agentVars
    /\ UNCHANGED genVars
    /\ UNCHANGED profileVars

\* "if isinstance(data, list): all_themes.extend(data); break"
FetchList ==
    /\ tpc = "fetch"
    /\ page_requests < MaxPageRequests
    /\ api_form = "list"
    /\ page_requests' = page_requests + 1
    /\ all_themes' = all_themes \o PagesItems(1, api_pages)
    /\ tpc' = "returned"
    /\ UNCHANGED <<have_key, api_form, api_pages, cursor>>
    /\ UNCHANGED repairVars
    /\ UNCHANGED casesVars
    /\ UNCHANGED linkVars
    /\ UNCHANGED payloadVars
    /\ UNCHANGED agentVars
    /\ UNCHANGED genVars
    /\ UNCHANGED profileVars

\* "elif isinstance(data, dict):": the page after the cursor is served, with
\* hasMore and nextCursor; "if not has_more or not cursor: break".
FetchPage ==
    /\ tpc = "fetch"
    /\ page_requests < MaxPageRequests
    /\ api_form = "paged"
    /\ page_requests' = page_requests + 1
    /\ all_themes' = all_themes \o PageItems(cursor + 1)
    /\ cursor' = IF cursor + 1 < api_pages THEN cursor + 1 ELSE 0
    /\ tpc' = IF cursor + 1 < api_pages /\ cursor' # 0 THEN "fetch" ELSE "returned"
    /\ UNCHANGED <<have_key, api_form, api_pages>>
    /\ UNCHANGED repairVars
    /\ UNCHANGED casesVars
    /\ UNCHANGED linkVars
    /\ UNCHANGED payloadVars
    /\ UNCHANGED agentVars
    /\ UNCHANGED genVars
    /\ UNCHANGED profileVars

\* "else: break": the answer is neither a list nor an object.
FetchOther ==
    /\ tpc = "fetch"
    /\ page_requests < MaxPageRequests
    /\ api_form = "other"
    /\ page_requests' = page_requests + 1
    /\ tpc' = "returned"
    /\ UNCHANGED <<have_key, api_form, api_pages, all_themes, cursor>>
    /\ UNCHANGED repairVars
    /\ UNCHANGED casesVars
    /\ UNCHANGED linkVars
    /\ UNCHANGED payloadVars
    /\ UNCHANGED agentVars
    /\ UNCHANGED genVars
    /\ UNCHANGED profileVars

\* The range of the loop is used up: "return all_themes"
LoopExhausted ==
    /\ tpc = "fetch"
    /\ page_requests = MaxPageRequests
    /\ tpc' = "capped"
    /\ UNCHANGED <<have_key, api_form, api_pages, all_themes, cursor, page_requests>>
    /\ UNCHANGED repairVars
    /\ UNCHANGED casesVars
    /\ UNCHANGED linkVars
    /\ UNCHANGED payloadVars
    /\ UNCHANGED agentVars
    /\ UNCHANGED genVars
    /\ UNCHANGED profileVars

InitThemes ==
    /\ have_key \in BOOLEAN
    /\ api_form \in {"paged", "list", "other"}
    /\ api_pages \in 1..MaxPagesServed
    /\ all_themes = <<>>
    /\ cursor = 0
    /\ page_requests = 0
    /\ tpc = "call"
    /\ text = <<>>
    /\ contact_name = <<>>
    /\ repaired = Unset
    /\ rpath = "idle"
    /\ csv_text = <<>>
    /\ research_text = <<>>
    /\ target_industry = Unset
    /\ report = Unset
    /\ cpc = "idle"
    /\ link_text = <<>>
    /\ link_name = <<>>
    /\ anchor_idx = -1
    /\ found_url = Unset
    /\ lpc = "idle"
    /\ inputs = NoInputs
    /\ qpilot_text = <<>>
    /\ playbook_text = <<>>
    /\ solved_challenges_processed = <<>>
    /\ payload_parts = <<>>
    /\ payload = Unset
    /\ ppc = "idle"
    /\ event_id = Unset
    /\ company_id = Unset
    /\ qpilot_path = Unset
    /\ research_doc = "none"
    /\ runner_calls = <<>>
    /\ deck_markdown = Unset
    /\ saved_decks = <<>>
    /\ apc = "idle"
    /\ api_key_set = FALSE
    /\ max_attempts = 0
    /\ attempt = 0
    /\ poll_log = <<>>
    /\ generation_id = None
    /\ gen_result = [ok |-> FALSE, export_url |-> None, generation_id |-> None, error |-> "unset"]
    /\ gpc = "idle"
    /\ cfg_key_set = FALSE
    /\ requests_made = <<>>
    /\ last_err = "None"
    /\ profile_result = [ok |-> FALSE, status_code |-> 0, error |-> "unset"]
    /\ fpc = "idle"

NextThemes ==
    \/ ReturnNoKey
    \/ StartPaging
    \/ FetchFails
    \/ FetchList
    \/ FetchPage
    \/ FetchOther
    \/ LoopExhausted

SpecThemes == InitThemes /\ [][NextThemes]_vars

\* list_themes has returned without a failed request.
ThemesReturned == tpc \in {"returned", "capped"}

\* C22: whatever the number of pages the endpoint serves, the themes
\* returned are the items of all the pages, in the order of the pages.
C22_AllPagesCollected ==
    (ThemesReturned /\ api_form = "paged") => all_themes = PagesItems(1, api_pages)

\* C22, the case that goes as claimed: twenty pages were served and followed
\* by their cursors, and the items of all twenty are returned.
C22_Reached ==
    /\ tpc = "returned"
    /\ api_form = "paged"
    /\ api_pages = MaxPageRequests
    /\ page_requests = MaxPageRequests
    /\ all_themes = PagesItems(1, MaxPageRequests)

(***************************************************************************)
(* gamma_export.generate_presentation, without a progress callback: the    *)
(* markdown is submitted, then the status URL is polled until the          *)
(* generation is completed or failed, max_attempts times at most.          *)
(***************************************************************************)
\* Most polls GAMMA_MAX_ATTEMPTS allows.
MaxAttempts == 4

\* The dict that is returned.
Envelope(ok, export_url, gid, error) ==
    [ok |-> ok, export_url |-> export_url, generation_id |-> gid, error |-> error]

\* "if not api_key: return {...}"
ReturnNotConfigured ==
    /\ gpc = "call"
    /\ ~api_key_set
    /\ gen_result' = Envelope(FALSE, None, None, "GAMMA_API_KEY not configured")
    /\ gpc' = "returned"
    /\ UNCHANGED <<api_key_set, max_attempts, attempt, poll_log, generation_id>>
    /\ UNCHANGED repairVars
    /\ UNCHANGED casesVars
    /\ UNCHANGED linkVars
    /\ UNCHANGED payloadVars
    /\ UNCHANGED agentVars
    /\ UNCHANGED themeVars
    /\ UNCHANGED profileVars

\* Step 1 does not give a generation: the answer has no generationId, the
\* status is an HTTP error, or the request fails.
SubmitFails ==
    /\ gpc = "call"
    /\ api_key_set
    /\ \E error \in {"Gamma response missing generationId", "Gamma API HTTP", "Gamma API request failed"} :
          gen_result' = Envelope(FALSE, None, None, error)
    /\ gpc' = "returned"
    /\ UNCHANGED <<api_key_set, max_attempts, attempt, poll_log, generation_id>>
    /\ UNCHANGED repairVars
    /\ UNCHANGED casesVars
    /\ UNCHANGED linkVars
    /\ UNCHANGED payloadVars
    /\ UNCHANGED agentVars
    /\ UNCHANGED themeVars
    /\ UNCHANGED profileVars

\* The generation ids the API gives.
GenerationIds == {<<"g","1">>, <<"g","2">>}

\* Step 1 gives generation_id; "for attempt in range(max_attempts):" is entered.
SubmitSucceeds ==
    /\ gpc = "call"
    /\ api_key_set
    /\ generation_id' \in GenerationIds
    /\ attempt' = 0
    /\ gpc' = "poll"
    /\ UNCHANGED <<api_key_set, max_attempts, poll_log, gen_result>>
    /\ UNCHANGED repairVars
    /\ UNCHANGED casesVars
    /\ UNCHANGED linkVars
    /\ UNCHANGED payloadVars
    /\ UNCHANGED agentVars
    /\ UNCHANGED themeVars
    /\ UNCHANGED profileVars

\* The export URLs a completed generation has.
ExportUrls == {<<"u","1">>, <<"u","2">>}

\* "if status == 'completed': export_url = data.get('exportUrl'); if export_url: return {ok: True, ...}"
PollCompleted ==
    /\ gpc = "poll"
    /\ attempt < max_attempts
    /\ \E export_url \in ExportUrls :
          /\ poll_log' = Append(poll_log, <<"completed", export_url>>)
          /\ gen_result' = Envelope(TRUE, export_url, generation_id, "None")
    /\ attempt' = attempt + 1
    /\ gpc' = "returned"
    /\ UNCHANGED <<api_key_set, max_attempts, generation_id>>
    /\ UNCHANGED repairVars
    /\ UNCHANGED casesVars
    /\ UNCHANGED linkVars
    /\ UNCHANGED payloadVars
    /\ UNCHANGED agentVars
    /\ UNCHANGED themeVars
    /\ UNCHANGED profileVars

\* Mutant of PollCompletedNoUrl: the generation is reported as done.
PollCompletedNoUrlOk ==
    /\ gpc = "poll"
    /\ attempt < max_attempts
    /\ \E export_url \in {None, <<>>} :
          /\ poll_log' = Append(poll_log, <<"completed", export_url>>)
          /\ gen_result' = Envelope(TRUE, export_url, generation_id, "None")
    /\ attempt' = attempt + 1
    /\ gpc' = "returned"
    /\ UNCHANGED <<api_key_set, max_attempts, generation_id>>
    /\ UNCHANGED repairVars
    /\ UNCHANGED casesVars
    /\ UNCHANGED linkVars
    /\ UNCHANGED payloadVars
    /\ UNCHANGED agentVars
    /\ UNCHANGED themeVars
    /\ UNCHANGED profileVars

\* 'completed' with exportUrl missing or empty.
PollCompletedNoUrl ==
    /\ gpc = "poll"
    /\ attempt < max_attempts
    /\ \E export_url \in {None, <<>>} :
          poll_log' = Append(poll_log, <<"completed", export_url>>)
    /\ gen_result' = Envelope(FALSE, None, generation_id, "Gamma completed but no exportUrl returned")
    /\ attempt' = attempt + 1
    /\ gpc' = "returned"
    /\ UNCHANGED <<api_key_set, max_attempts, generation_id>>
    /\ UNCHANGED repairVars
    /\ UNCHANGED casesVars
    /\ UNCHANGED linkVars
    /\ UNCHANGED payloadVars
    /\ UNCHANGED agentVars
    /\ UNCHANGED themeVars
    /\ UNCHANGED profileVars

\* "if status == 'failed': return {...}"
PollFailed ==
    /\ gpc = "poll"
    /\ attempt < max_attempts
    /\ poll_log' = Append(poll_log, <<"failed", None>>)
    /\ gen_result' = Envelope(FALSE, None, generation_id, "Gamma generation failed")
    /\ attempt' = attempt + 1
    /\ gpc' = "returned"
    /\ UNCHANGED <<api_key_set, max_attempts, generation_id>>
    /\ UNCHANGED repairVars
    /\ UNCHANGED casesVars
    /\ UNCHANGED linkVars
    /\ UNCHANGED payloadVars
    /\ UNCHANGED agentVars
    /\ UNCHANGED themeVars
    /\ UNCHANGED profileVars

\* Any other status, or none: the poll is followed by the sleep and the next iteration.
PollPending ==
    /\ gpc = "poll"
    /\ attempt < max_attempts
    /\ \E status \in {"pending", "None"} :
          poll_log' = Append(poll_log, <<status, None>>)
    /\ attempt' = attempt + 1
    /\ UNCHANGED <<api_key_set, max_attempts, generation_id, gen_result, gpc>>
    /\ UNCHANGED repairVars
    /\ UNCHANGED casesVars
    /\ UNCHANGED linkVars
    /\ UNCHANGED payloadVars
    /\ UNCHANGED agentVars
    /\ UNCHANGED themeVars
    /\ UNCHANGED profileVars

\* requests.get or .json() raises, or the answer is no object:
\* "except Exception" logs it, and the loop goes on the same way.
PollRaises ==
    /\ gpc = "poll"
    /\ attempt < max_attempts
    /\ poll_log' = Append(poll_log, <<"raised", None>>)
    /\ attempt' = attempt + 1
    /\ UNCHANGED <<api_key_set, max_attempts, generation_id, gen_result, gpc>>
    /\ UNCHANGED repairVars
    /\ UNCHANGED casesVars
    /\ UNCHANGED linkVars
    /\ UNCHANGED payloadVars
    /\ UNCHANGED agentVars
    /\ UNCHANGED themeVars
    /\ UNCHANGED profileVars

\* The range is used up: "return {ok: False, ..., 'error': 'Gamma generation timed out after ...'}"
PollsTimedOut ==
    /\ gpc = "poll"
    /\ attempt = max_attempts
    /\ gen_result' = Envelope(FALSE, None, generation_id, "Gamma generation timed out")
    /\ gpc' = "returned"
    /\ UNCHANGED <<api_key_set, max_attempts, attempt, poll_log, generation_id>>
    /\ UNCHANGED repairVars
    /\ UNCHANGED casesVars
    /\ UNCHANGED linkVars
    /\ UNCHANGED payloadVars
    /\ UNCHANGED agentVars
    /\ UNCHANGED themeVars
    /\ UNCHANGED profileVars

InitGenerate ==
    /\ api_key_set \in BOOLEAN
    /\ max_attempts \in 0..MaxAttempts
    /\ attempt = 0
    /\ poll_log = <<>>
    /\ generation_id = None
    /\ gen_result = [ok |-> FALSE, export_url |-> None, generation_id |-> None, error |-> "unset"]
    /\ gpc = "call"
    /\ text = <<>>
    /\ contact_name = <<>>
    /\ repaired = Unset
    /\ rpath = "idle"
    /\ csv_text = <<>>
    /\ research_text = <<>>
    /\ target_industry = Unset
    /\ report = Unset
    /\ cpc = "idle"
    /\ link_text = <<>>
    /\ link_name = <<>>
    /\ anchor_idx = -1
    /\ found_url = Unset
    /\ lpc = "idle"
    /\ inputs = NoInputs
    /\ qpilot_text = <<>>
    /\ playbook_text = <<>>
    /\ solved_challenges_processed = <<>>
    /\ payload_parts = <<>>
    /\ payload = Unset
    /\ ppc = "idle"
    /\ event_id = Unset
    /\ company_id = Unset
    /\ qpilot_path = Unset
    /\ research_doc = "none"
    /\ runner_calls = <<>>
    /\ deck_markdown = Unset
    /\ saved_decks = <<>>
    /\ apc = "idle"
    /\ have_key = FALSE
    /\ api_form = "paged"
    /\ api_pages = 0
    /\ all_themes = <<>>
    /\ cursor = 0
    /\ page_requests = 0
    /\ tpc = "idle"
    /\ cfg_key_set = FALSE
    /\ requests_made = <<>>
    /\ last_err = "None"
    /\ profile_result = [ok |-> FALSE, status_code |-> 0, error |-> "unset"]
    /\ fpc = "idle"

NextGenerate ==
    \/ ReturnNotConfigured
    \/ SubmitFails
    \/ SubmitSucceeds
    \/ PollCompleted
    \/ PollCompletedNoUrl
    \/ PollFailed
    \/ PollPending
    \/ PollRaises
    \/ PollsTimedOut

SpecGenerate == InitGenerate /\ [][NextGenerate]_vars

\* Every request has a timeout and every sleep an end: a call that has not
\* returned takes its next step.
FairSpecGenerate == SpecGenerate /\ WF_vars(NextGenerate)

\* The poll reported 'completed' or 'failed'.
TerminalPoll(p) == p[1] \in {"completed", "failed"}

\* What holds of the polls and of the result at every moment.
PollsBoundedAndResultTrue ==
    /\ Len(poll_log) <= max_attempts
    /\ \A k \in 1..(Len(poll_log) - 1) : ~TerminalPoll(poll_log[k])
    /\ (poll_log # <<>> /\ TerminalPoll(poll_log[Len(poll_log)])) => gpc = "returned"
    /\ (gpc = "returned" /\ generation_id # None /\ \A k \in DOMAIN poll_log : ~TerminalPoll(poll_log[k])) =>
          /\ Len(poll_log) = max_attempts
          /\ gen_result = Envelope(FALSE, None, generation_id, "Gamma generation timed out")
    /\ gen_result.ok =>
          /\ poll_log # <<>>
          /\ poll_log[Len(poll_log)][1] = "completed"
          /\ ~Falsy(poll_log[Len(poll_log)][2])
          /\ gen_result.export_url = poll_log[Len(poll_log)][2]

\* C23: once the submit has given a generation id the call returns: it polls
\* max_attempts times at most, a poll that reports 'completed' or 'failed'
\* is the last one, a poll that raises or reports another status is followed
\* by the next, and when none of max_attempts polls reported 'completed' or
\* 'failed' the result is ok=False, 'timed out', with the generation id;
\* ok=True is returned only for 'completed' with an exportUrl that is not empty.
C23_PollingTerminates ==
    /\ []PollsBoundedAndResultTrue
    /\ (gpc = "poll") ~> (gpc = "returned")

\* C23 witness: every one of the most polls allowed raised or reported
\* another status, both kinds among them, and the call returned 'timed out'
\* with the generation id.
C23_Witness ==
    /\ gpc = "returned"
    /\ max_attempts = MaxAttempts
    /\ Len(poll_log) = MaxAttempts
    /\ \E k \in DOMAIN poll_log : poll_log[k][1] = "raised"
    /\ \E k \in DOMAIN poll_log : poll_log[k][1] = "pending"
    /\ gen_result.error = "Gamma generation timed out"
    /\ gen_result.generation_id = generation_id
    /\ generation_id # None

\* C23, second case: polls that raised and polls without a terminal status
\* came before the one that reported 'completed' with a URL, and ok=True is
\* returned with that URL.
C23_CompletedWitness ==
    /\ gpc = "returned"
    /\ gen_result.ok
    /\ Len(poll_log) >= 3
    /\ Len(poll_log) < max_attempts
    /\ poll_log[1][1] = "raised"
    /\ gen_result.export_url \in ExportUrls

(***************************************************************************)
(* scrapedog.fetch_person_profile: the profile endpoint is asked up to     *)
(* four times.  A request gives <<status code, body>>: the body of a 200   *)
(* is the kind of document it holds, the status code 0 stands for a        *)
(* request that raised, its body for the kind of exception.                *)
(***************************************************************************)
\* "for attempt in range(1, 5):"
ProfileAttempts == 4

ProfileResponse(ok, status_code, error) == [ok |-> ok, status_code |-> status_code, error |-> error]

\* The status codes that are retried, with last_err as set for each: 429,
\* 202, 410, and any other status that is not 200.
RetriedStatus == {429, 202, 410, 500, 302}

LastErrOf(sc) ==
    CASE sc = 429 -> "429"
      [] sc = 202 -> "202 Accepted"
      [] sc = 410 -> "410 Request timeout"
      [] OTHER -> "HTTP"

\* The bodies of a 200 that are returned as a failure, with the status code
\* and the error of the response: no JSON, JSON that does not decode, an
\* empty list, a list whose first item is no object, a value that is
\* neither list nor object, an object (or first item) with an 'error' that is true.
UnusableBodies ==
    {"not json", "bad json", "list empty", "list of scalar", "scalar", "dict error", "list of dict error"}

UnusableStatus(body) ==
    CASE body \in {"not json", "bad json"} -> 200
      [] body = "list empty" -> 404
      [] OTHER -> 502

UnusableError(body) ==
    CASE body = "not json" -> "Non-JSON response from ScrapingDog."
      [] body = "bad json" -> "JSON decode error"
      [] body = "list empty" -> "Profile list is empty."
      [] body = "list of scalar" -> "Unexpected payload shape (list item not dict)."
      [] body = "scalar" -> "Unexpected payload shape (neither dict nor list)."
      [] OTHER -> "ScrapingDog upstream error."

\* The bodies of a 200 that pass "normalized.get('error')": an object, or a
\* list with an object first, without 'error' or with an 'error' that is
\* false (null, '', 0, an empty list).
UsableBodies == {"dict", "list of dict", "dict error null", "list of dict error empty"}

\* "cfg = _get_cfg()": "raise RuntimeError('SCRAPINGDOG_API_KEY is not set')"
RaiseNotConfigured ==
    /\ fpc = "call"
    /\ ~cfg_key_set
    /\ fpc' = "raised"
    /\ UNCHANGED <<cfg_key_set, requests_made, last_err, profile_result>>
    /\ UNCHANGED repairVars
    /\ UNCHANGED casesVars
    /\ UNCHANGED linkVars
    /\ UNCHANGED payloadVars
    /\ UNCHANGED agentVars
    /\ UNCHANGED themeVars
    /\ UNCHANGED genVars

\* The slug and the parameters are made, the client is opened.
OpenClient ==
    /\ fpc = "call"
    /\ cfg_key_set
    /\ last_err' = "None"
    /\ fpc' = "attempt"
    /\ UNCHANGED <<cfg_key_set, requests_made, profile_result>>
    /\ UNCHANGED repairVars
    /\ UNCHANGED casesVars
    /\ UNCHANGED linkVars
    /\ UNCHANGED payloadVars
    /\ UNCHANGED agentVars
    /\ UNCHANGED themeVars
    /\ UNCHANGED genVars

\* 429, 202, 410 or another status that is not 200: last_err is set, "continue".
AttemptRetried ==
    /\ fpc = "attempt"
    /\ Len(requests_made) < ProfileAttempts
    /\ \E sc \in RetriedStatus :
          /\ requests_made' = Append(requests_made, <<sc, "">>)
          /\ last_err' = LastErrOf(sc)
    /\ UNCHANGED <<cfg_key_set, profile_result, fpc>>
    /\ UNCHANGED repairVars
    /\ UNCHANGED casesVars
    /\ UNCHANGED linkVars
    /\ UNCHANGED payloadVars
    /\ UNCHANGED agentVars
    /\ UNCHANGED themeVars
    /\ UNCHANGED genVars

\* The request raises: a network timeout, or any other Exception.
AttemptRaises ==
    /\ fpc = "attempt"
    /\ Len(requests_made) < ProfileAttempts
    /\ \E kind \in {"network-timeout", "unexpected"} :
          /\ requests_made' = Append(requests_made, <<0, kind>>)
          /\ last_err' = kind
    /\ UNCHANGED <<cfg_key_set, profile_result, fpc>>
    /\ UNCHANGED repairVars
    /\ UNCHANGED casesVars
    /\ UNCHANGED linkVars
    /\ UNCHANGED payloadVars
    /\ UNCHANGED agentVars
    /\ UNCHANGED themeVars
    /\ UNCHANGED genVars

\* "if sc in (401, 403): return ..." and "if sc == 404: return ..."
AttemptRejected ==
    /\ fpc = "attempt"
    /\ Len(requests_made) < ProfileAttempts
    /\ \E sc \in {401, 403, 404} :
          /\ requests_made' = Append(requests_made, <<sc, "">>)
          /\ profile_result' = ProfileResponse(FALSE, sc,
                 IF sc = 404 THEN "Profile not found or ID/slug is invalid."
                 ELSE "Auth/plan error from ScrapingDog. Check API key, plan, or credits.")
    /\ fpc' = "returned"
    /\ UNCHANGED <<cfg_key_set, last_err>>
    /\ UNCHANGED repairVars
    /\ UNCHANGED casesVars
    /\ UNCHANGED linkVars
    /\ UNCHANGED payloadVars
    /\ UNCHANGED agentVars
    /\ UNCHANGED themeVars
    /\ UNCHANGED genVars

\* A 200 whose body is returned as a failure.
AttemptUnusable ==
    /\ fpc = "attempt"
    /\ Len(requests_made) < ProfileAttempts
    /\ \E body \in UnusableBodies :
          /\ requests_made' = Append(requests_made, <<200, body>>)
          /\ profile_result' = ProfileResponse(FALSE, UnusableStatus(body), UnusableError(body))
    /\ fpc' = "returned"
    /\ UNCHANGED <<cfg_key_set, last_err>>
    /\ UNCHANGED repairVars
    /\ UNCHANGED casesVars
    /\ UNCHANGED linkVars
    /\ UNCHANGED payloadVars
    /\ UNCHANGED agentVars
    /\ UNCHANGED themeVars
    /\ UNCHANGED genVars

\* Mutant of AttemptOk: a status that is not 200 is taken for the profile.
AttemptOkAnyStatus ==
    /\ fpc = "attempt"
    /\ Len(requests_made) < ProfileAttempts
    /\ \E sc \in {200, 202} : \E body \in UsableBodies :
          requests_made' = Append(requests_made, <<sc, body>>)
    /\ profile_result' = ProfileResponse(TRUE, 200, "None")
    /\ fpc' = "returned"
    /\ UNCHANGED <<cfg_key_set, last_err>>
    /\ UNCHANGED repairVars
    /\ UNCHANGED casesVars
    /\ UNCHANGED linkVars
    /\ UNCHANGED payloadVars
    /\ UNCHANGED agentVars
    /\ UNCHANGED themeVars
    /\ UNCHANGED genVars

\* "return LinkedInProfileResponse(ok=True, status_code=200, data=normalized, ...)"
AttemptOk ==
    /\ fpc = "attempt"
    /\ Len(requests_made) < ProfileAttempts
    /\ \E body \in UsableBodies :
          requests_made' = Append(requests_made, <<200, body>>)
    /\ profile_result' = ProfileResponse(TRUE, 200, "None")
    /\ fpc' = "returned"
    /\ UNCHANGED <<cfg_key_set, last_err>>
    /\ UNCHANGED repairVars
    /\ UNCHANGED casesVars
    /\ UNCHANGED linkVars
    /\ UNCHANGED payloadVars
    /\ UNCHANGED agentVars
    /\ UNCHANGED themeVars
    /\ UNCHANGED genVars

\* The range is used up: "return LinkedInProfileResponse(ok=False, status_code=502, error=f'Failed after retries: {last_err}', ...)"
AttemptsExhausted ==
    /\ fpc = "attempt"
    /\ Len(requests_made) = ProfileAttempts
    /\ profile_result' = ProfileResponse(FALSE, 502, "Failed after retries")
    /\ fpc' = "returned"
    /\ UNCHANGED <<cfg_key_set, requests_made, last_err>>
    /\ UNCHANGED repairVars
    /\ UNCHANGED casesVars
    /\ UNCHANGED linkVars
    /\ UNCHANGED payloadVars
    /\ UNCHANGED agentVars
    /\ UNCHANGED themeVars
    /\ UNCHANGED genVars

InitProfile ==
    /\ cfg_key_set \in BOOLEAN
    /\ requests_made = <<>>
    /\ last_err = "None"
    /\ profile_result = [ok |-> FALSE, status_code |-> 0, error |-> "unset"]
    /\ fpc = "call"
    /\ text = <<>>
    /\ contact_name = <<>>
    /\ repaired = Unset
    /\ rpath = "idle"
    /\ csv_text = <<>>
    /\ research_text = <<>>
    /\ target_industry = Unset
    /\ report = Unset
    /\ cpc = "idle"
    /\ link_text = <<>>
    /\ link_name = <<>>
    /\ anchor_idx = -1
    /\ found_url = Unset
    /\ lpc = "idle"
    /\ inputs = NoInputs
    /\ qpilot_text = <<>>
    /\ playbook_text = <<>>
    /\ solved_challenges_processed = <<>>
    /\ payload_parts = <<>>
    /\ payload = Unset
    /\ ppc = "idle"
    /\ event_id = Unset
    /\ company_id = Unset
    /\ qpilot_path = Unset
    /\ research_doc = "none"
    /\ runner_calls = <<>>
    /\ deck_markdown = Unset
    /\ saved_decks = <<>>
    /\ apc = "idle"
    /\ have_key = FALSE
    /\ api_form = "paged"
    /\ api_pages = 0
    /\ all_themes = <<>>
    /\ cursor = 0
    /\ page_requests = 0
    /\ tpc = "idle"
    /\ api_key_set = FALSE
    /\ max_attempts = 0
    /\ attempt = 0
    /\ poll_log = <<>>
    /\ generation_id = None
    /\ gen_result = [ok |-> FALSE, export_url |-> None, generation_id |-> None, error |-> "unset"]
    /\ gpc = "idle"

NextProfile ==
    \/ RaiseNotConfigured
    \/ OpenClient
    \/ AttemptRetried
    \/ AttemptRaises
    \/ AttemptRejected
    \/ AttemptUnusable
    \/ AttemptOk
    \/ AttemptsExhausted

SpecProfile == InitProfile /\ [][NextProfile]_vars

\* The request is one the claim has retried: 429, 202, 410, another status
\* that is not 200, 401, 403 or 404, or an exception.
ClaimedRetry(r) == r[1] \notin {200, 401, 403, 404}

\* The claim as to the requests: four at most, every one before the last
\* retried, a 401, 403 or 404 returned at once as a failure with that
\* status, four retried requests returned as 502 'Failed after retries'.
RequestsAsClaimed ==
    /\ Len(requests_made) <= 4
    /\ \A k \in 1..(Len(requests_made) - 1) : ClaimedRetry(requests_made[k])
    /\ (requests_made # <<>> /\ requests_made[Len(requests_made)][1] \in {401, 403, 404}) =>
          /\ fpc = "returned"
          /\ ~profile_result.ok
          /\ profile_result.status_code = requests_made[Len(requests_made)][1]
    /\ (requests_made # <<>> /\ ClaimedRetry(requests_made[Len(requests_made)]) /\ Len(requests_made) < 4) =>
          fpc = "attempt"
    /\ (fpc = "returned" /\ Len(requests_made) = 4 /\ \A k \in 1..4 : ClaimedRetry(requests_made[k])) =>
          profile_result = ProfileResponse(FALSE, 502, "Failed after retries")
    /\ fpc = "raised" => requests_made = <<>>

\* The body is an object, or a list with an object first.
NormalisesToDict(body) ==
    body \in {"dict", "dict error", "dict error null", "list of dict", "list of dict error", "list of dict error empty"}

\* The object it normalises to has the key 'error'; the value of the key is true.
HasErrorKey(body) ==
    body \in {"dict error", "dict error null", "list of dict error", "list of dict error empty"}

HasTrueError(body) == body \in {"dict error", "list of dict error"}

C24_ExhaustedWitness ==
    /\ fpc = "returned"
    /\ Len(requests_made) = 4
    /\ \A k \in 1..4 : ClaimedRetry(requests_made[k])
    /\ \E k \in 1..4 : requests_made[k][1] = 410
    /\ \E k \in 1..4 : requests_made[k][1] = 500
    /\ profile_result = ProfileResponse(FALSE, 502, "Failed after retries")

C24_RejectedWitness ==
    /\ fpc = "returned"
    /\ Len(requests_made) = 2
    /\ requests_made[2][1] = 404
    /\ profile_result.status_code = 404

C24_NullErrorWitness ==
    /\ fpc = "returned"
    /\ profile_result.ok
    /\ requests_made[Len(requests_made)] = <<200, "dict error null">>

====
